---- MODULE Spec2Model ----
(***************************************************************************)
(* Formal model of the in-process coordination core of the Telegram        *)
(* wildlife identification bot (src/src/bot/telegramBot.js):               *)
(*   - WeeklyRateLimiter   (weekly quota per group / per private user)     *)
(*   - RequestManager      (tracked identification requests)               *)
(*   - MediaGroupCollector (one-second batching of album photos)           *)
(*   - ResultCache         (TTL cache for follow-up buttons)               *)
(*   - the handlers that drive a photo through the pipeline                *)
(*                                                                         *)
(* Time is Date.now() in milliseconds.  The model's time origin 0 is a     *)
(* Monday 00:00:00.000 in Asia/Singapore (UTC+8), so that the Singapore    *)
(* wall clock of an instant t is t itself.                                 *)
(***************************************************************************)
EXTENDS Integers, Sequences, FiniteSets, TLC

VARIABLES
  now,            \* Date.now()
  hostUtcOffset,  \* UTC offset of the host's local time zone, in ms
  usage,          \* WeeklyRateLimiter.usage : key -> [count, resetAt]
  ret,            \* what the last operation returned to its caller
  delivered,      \* history: key -> identification results sent in a week
  pc,             \* where each run of the photo handlers stands
  rm,             \* RequestManager: requests, userRequests, chatRequests, stats
  idSeq,          \* number of request ids generated so far
  groups,         \* MediaGroupCollector.groups : media group id -> batch
  arrivals,       \* history: every photo event of an album, in order
  promises,       \* what each addPhoto call's promise resolved with
  cache,          \* ResultCache.cache : key -> [value, timestamp]
  written,        \* history: key -> the last value set, when, for which chat
  valSeq,         \* number of result objects stored so far
  classifier,     \* the identifyAnimal call in progress and its attempts
  pendingPhotos,  \* pendingPhotos : key -> the single photo offered
  pendingPhotoGroups, \* pendingPhotoGroups : key -> the album offered
  prompts,        \* the offer messages with buttons still shown: key -> chat
  offerTimers,    \* the setTimeout calls that expire offers: <<key, due>>
  taps,           \* where each run of the button handler stands
  msgSeq,         \* number of photo messages received so far
  batchRun,       \* where the run of processMediaGroupPhotos stands
  userImageCache, \* userImageCache.cache : image key -> [value, timestamp]
  detailTaps,     \* where each run of a result-button handler stands
  imagesSent      \* history: every full-resolution image sent privately

limiterVars == <<hostUtcOffset, usage, delivered, pc>>
rmVars == <<rm, idSeq>>
collectorVars == <<groups, arrivals, promises>>
cacheVars == <<cache, written, valSeq>>
offerVars ==
  <<pendingPhotos, pendingPhotoGroups, prompts, offerTimers, taps, msgSeq>>
followVars == <<batchRun, userImageCache, detailTaps, imagesSent>>
serviceVars == <<classifier, offerVars, followVars>>
vars == <<now, ret, limiterVars, rmVars, collectorVars, cacheVars, serviceVars>>

----------------------------------------------------------------------------
(* Durations, in milliseconds *)

HourMs == 3600000
DayMs == 24 * HourMs
WeekMs == 7 * DayMs
SstUtcOffset == 8 * HourMs

(* Host time zones the bot is run in: a UTC cloud host, a host in Singapore *)
HostUtcOffsets == {0, SstUtcOffset}

----------------------------------------------------------------------------
(* Maps (JavaScript Map objects) as functions with a growing domain *)

EmptyMap == [x \in {} |-> 0]
MapPut(f, k, v) == (k :> v) @@ f
MapRemove(f, k) == [x \in DOMAIN f \ {k} |-> f[x]]
NoRet == [op |-> "none"]

----------------------------------------------------------------------------
(* Telegram identifiers.  A private chat has the id of its user (positive), *)
(* a group chat has a negative id.                                          *)

UserIds == {1, 2}
GroupChatIds == {-1}
ChatIds == UserIds \cup GroupChatIds

(* The (chat, user) pairs an update can carry *)
Contexts ==
  {<<u, u>> : u \in UserIds} \cup (GroupChatIds \X UserIds)

----------------------------------------------------------------------------
(* WEEKLY RATE LIMITER *)

maxGroupRequestsPerWeek == 50
maxPmRequestsPerWeek == 25

_isPrivateChat(chatId) == chatId > 0

_getKeyAndLimitByUser(chatId, userId) ==
  [key |-> <<"user", userId>>,
   limit |-> IF _isPrivateChat(chatId) THEN maxPmRequestsPerWeek
                                       ELSE maxGroupRequestsPerWeek,
   isPrivate |-> _isPrivateChat(chatId)]

_getKeyAndLimit(chatId, userId) ==
  IF _isPrivateChat(chatId)
    THEN [key |-> <<"user", userId>>, limit |-> maxPmRequestsPerWeek,
          isPrivate |-> TRUE]
    ELSE [key |-> <<"group", chatId>>, limit |-> maxGroupRequestsPerWeek,
          isPrivate |-> FALSE]

(* new Date(now.toLocaleString('en-US', {timeZone})) parses the Singapore    *)
(* wall clock as host-local time; getDay/getHours/setDate/setHours then act  *)
(* on that wall clock, and getTime() converts the wall-clock Monday 00:00    *)
(* back with the HOST's offset, after which a fixed 8 hours is subtracted.   *)
(* With wall clock w (ms since the origin) the result is w - hostUtcOffset.  *)
_getNextMondayReset(t, hostOff) ==
  LET dayIndex == (t \div DayMs) % 7            \* 0 = Monday ... 6 = Sunday
      currentDay == (dayIndex + 1) % 7          \* getDay(): 0 = Sunday
      d0 == (8 - currentDay) % 7
      daysUntilMonday == IF d0 = 0 THEN 7 ELSE d0   \* getHours() >= 0 always
      startOfDay == (t \div DayMs) * DayMs      \* setHours(0, 0, 0, 0)
      nextMondayWall == startOfDay + daysUntilMonday * DayMs
      nextMondayEpoch == nextMondayWall + SstUtcOffset - hostOff
  IN nextMondayEpoch - SstUtcOffset

_getUsage(us, key, t, hostOff) ==
  LET us1 == IF key \in DOMAIN us
               THEN us
               ELSE us @@ (key :> [count |-> 0,
                                   resetAt |-> _getNextMondayReset(t, hostOff)])
  IN IF t >= us1[key].resetAt
       THEN [us1 EXCEPT ![key] =
               [count |-> 0, resetAt |-> _getNextMondayReset(t, hostOff)]]
       ELSE us1

checkLimitCounting(us, chatId, userId, t, hostOff) ==
  LET kl == _getKeyAndLimit(chatId, userId)
      us1 == _getUsage(us, kl.key, t, hostOff)
      data == us1[kl.key]
  IN [usage |-> IF data.count < kl.limit
                  THEN [us1 EXCEPT ![kl.key].count = @ + 1]
                  ELSE us1,
      result |-> [op |-> "checkLimit", key |-> kl.key, at |-> t,
                  allowed |-> data.count < kl.limit,
                  remaining |-> IF kl.limit - data.count > 0
                                  THEN kl.limit - data.count ELSE 0,
                  resetAt |-> data.resetAt, used |-> data.count,
                  limit |-> kl.limit, isPrivate |-> kl.isPrivate]]

(* checkLimit: the usage map after the call and the value returned *)
checkLimit(us, chatId, userId, t, hostOff) ==
  LET kl == _getKeyAndLimit(chatId, userId)
      us1 == _getUsage(us, kl.key, t, hostOff)
      data == us1[kl.key]
  IN [usage |-> us1,
      result |-> [op |-> "checkLimit", key |-> kl.key, at |-> t,
                  allowed |-> data.count < kl.limit,
                  remaining |-> IF kl.limit - data.count > 0
                                  THEN kl.limit - data.count ELSE 0,
                  resetAt |-> data.resetAt, used |-> data.count,
                  limit |-> kl.limit, isPrivate |-> kl.isPrivate]]

consumeOffByOne(us, chatId, userId, t, hostOff) ==
  LET kl == _getKeyAndLimit(chatId, userId)
      us1 == _getUsage(us, kl.key, t, hostOff)
      data == us1[kl.key]
  IN IF data.count > kl.limit
       THEN [usage |-> us1,
             result |-> [op |-> "consume", key |-> kl.key, at |-> t,
                         success |-> FALSE, remaining |-> 0]]
       ELSE [usage |-> [us1 EXCEPT ![kl.key].count = @ + 1],
             result |-> [op |-> "consume", key |-> kl.key, at |-> t,
                         success |-> TRUE,
                         remaining |-> kl.limit - (data.count + 1),
                         used |-> data.count + 1]]

(* consume: the usage map after the call and the value returned *)
consume(us, chatId, userId, t, hostOff) ==
  LET kl == _getKeyAndLimit(chatId, userId)
      us1 == _getUsage(us, kl.key, t, hostOff)
      data == us1[kl.key]
  IN IF data.count >= kl.limit
       THEN [usage |-> us1,
             result |-> [op |-> "consume", key |-> kl.key, at |-> t,
                         success |-> FALSE, remaining |-> 0]]
       ELSE [usage |-> [us1 EXCEPT ![kl.key].count = @ + 1],
             result |-> [op |-> "consume", key |-> kl.key, at |-> t,
                         success |-> TRUE,
                         remaining |-> kl.limit - (data.count + 1),
                         used |-> data.count + 1]]

_checkResets(us, t, hostOff) ==
  [k \in DOMAIN us |->
     IF t >= us[k].resetAt
       THEN [count |-> 0, resetAt |-> _getNextMondayReset(t, hostOff)]
       ELSE us[k]]

----------------------------------------------------------------------------
(* REQUEST CONTEXT MANAGER *)

requestTimeout == 180000
pendingTimeout == 300000
cleanupInterval == 60000
maxRequestsPerUser == 5
completedGracePeriod == 300000

(* A JavaScript Set in insertion order: a sequence without repetitions *)
SetAdd(s, x) == IF \E i \in 1..Len(s) : s[i] = x THEN s ELSE Append(s, x)
SetDelete(s, x) == SelectSeq(s, LAMBDA y : y # x)
SetHas(s, x) == \E i \in 1..Len(s) : s[i] = x

IndexDeleteKeepingEmpty(ix, k, id) ==
  IF k \in DOMAIN ix THEN [ix EXCEPT ![k] = SetDelete(@, id)] ELSE ix

IndexGet(ix, k) == IF k \in DOMAIN ix THEN ix[k] ELSE <<>>
IndexDelete(ix, k, id) ==
  IF k \in DOMAIN ix
    THEN IF SetDelete(ix[k], id) = <<>>
           THEN MapRemove(ix, k)
           ELSE [ix EXCEPT ![k] = SetDelete(@, id)]
    ELSE ix

(* `req_${Date.now()}_${crypto.randomBytes(4).toString('hex')}`: the 32     *)
(* random bits make the id a nonce; the model draws the next unused number. *)
_generateRequestId(seq) == seq + 1

(* null, for a request id and for a chat id *)
Null == 0

(* getRequest: the id of the request found, or null *)
getRequest(S, requestId) ==
  IF requestId \in DOMAIN S.requests THEN requestId ELSE Null

_removeRequestKeepChatIndex(S, requestId) ==
  IF requestId \notin DOMAIN S.requests
    THEN S
    ELSE LET request == S.requests[requestId]
         IN [S EXCEPT
               !.userRequests = IndexDelete(@, request.userId, requestId),
               !.requests = MapRemove(@, requestId)]

_removeRequest(S, requestId) ==
  IF requestId \notin DOMAIN S.requests
    THEN S
    ELSE LET request == S.requests[requestId]
         IN [S EXCEPT
               !.userRequests = IndexDelete(@, request.userId, requestId),
               !.chatRequests = IndexDelete(@, request.chatId, requestId),
               !.requests = MapRemove(@, requestId)]

updateStatusCountingAbsent(S, requestId, status) ==
  LET S1 == IF requestId \in DOMAIN S.requests
              THEN [S EXCEPT !.requests[requestId].status = status]
              ELSE S
  IN [S1 EXCEPT
        !.stats.completedRequests = IF status = "completed" THEN @ + 1 ELSE @,
        !.stats.failedRequests = IF status = "failed" THEN @ + 1 ELSE @,
        !.stats.expiredRequests = IF status = "expired" THEN @ + 1 ELSE @]

updateStatus(S, requestId, status) ==
  IF requestId \notin DOMAIN S.requests
    THEN S
    ELSE [S EXCEPT
            !.requests[requestId].status = status,
            !.stats.completedRequests =
               IF status = "completed" THEN @ + 1 ELSE @,
            !.stats.failedRequests = IF status = "failed" THEN @ + 1 ELSE @,
            !.stats.expiredRequests = IF status = "expired" THEN @ + 1 ELSE @]

createRequestEvictNewest(S, requestId, userId, chatId, data, t) ==
  LET userReqs == IndexGet(S.userRequests, userId)
      S1 == IF Len(userReqs) >= maxRequestsPerUser
              THEN _removeRequest(S, userReqs[Len(userReqs)])
              ELSE S
      request == data @@ [requestId |-> requestId, userId |-> userId,
                          chatId |-> chatId, status |-> "pending",
                          createdAt |-> t, buffer |-> FALSE]
  IN [S1 EXCEPT
        !.requests = MapPut(@, requestId, request),
        !.userRequests =
           MapPut(@, userId, SetAdd(IndexGet(S1.userRequests, userId), requestId)),
        !.chatRequests =
           MapPut(@, chatId, SetAdd(IndexGet(S1.chatRequests, chatId), requestId)),
        !.stats.totalRequests = @ + 1]

(* createRequest(ctx, data): userId and chatId are ctx.from.id and          *)
(* ctx.chat.id, data is spread over the new request's fields.               *)
createRequest(S, requestId, userId, chatId, data, t) ==
  LET userReqs == IndexGet(S.userRequests, userId)
      S1 == IF Len(userReqs) >= maxRequestsPerUser
              THEN _removeRequest(S, Head(userReqs))
              ELSE S
      request == data @@ [requestId |-> requestId, userId |-> userId,
                          chatId |-> chatId, status |-> "pending",
                          createdAt |-> t, buffer |-> FALSE]
  IN [S1 EXCEPT
        !.requests = MapPut(@, requestId, request),
        !.userRequests =
           MapPut(@, userId, SetAdd(IndexGet(S1.userRequests, userId), requestId)),
        !.chatRequests =
           MapPut(@, chatId, SetAdd(IndexGet(S1.chatRequests, chatId), requestId)),
        !.stats.totalRequests = @ + 1]

RECURSIVE LatestPending(_, _, _, _, _)
LatestPending(S, ids, i, chatId, latestPending) ==
  IF i > Len(ids)
    THEN latestPending
    ELSE LET reqId == ids[i]
             eligible ==
               /\ reqId \in DOMAIN S.requests
               /\ S.requests[reqId].status = "pending"
               /\ S.requests[reqId].buffer
               /\ ~(chatId # Null /\ S.requests[reqId].chatId # chatId)
             better ==
               \/ latestPending = Null
               \/ S.requests[reqId].createdAt
                    > S.requests[latestPending].createdAt
         IN LatestPending(S, ids, i + 1, chatId,
                          IF eligible /\ better THEN reqId ELSE latestPending)

findPendingRequestAnyChat(S, userId, chatId) ==
  IF userId \notin DOMAIN S.userRequests
    THEN Null
    ELSE LatestPending(S, S.userRequests[userId], 1, Null, Null)

(* findPendingRequest: the id of the request returned, or null *)
findPendingRequest(S, userId, chatId) ==
  IF userId \notin DOMAIN S.userRequests
    THEN Null
    ELSE LatestPending(S, S.userRequests[userId], 1, chatId, Null)

completeAndRemoveNoUpdate(S, requestId) == _removeRequest(S, requestId)

completeAndKeep(S, requestId) == updateStatus(S, requestId, "completed")

completeAndRemoveCountingTwice(S, requestId) ==
  _removeRequest(updateStatus(updateStatus(S, requestId, "completed"),
                              requestId, "completed"),
                 requestId)

completeAndRemove(S, requestId) ==
  _removeRequest(updateStatus(S, requestId, "completed"), requestId)

RECURSIVE ExpireAll(_, _, _)
ExpireAll(S, ids, i) ==
  IF i > Len(ids)
    THEN S
    ELSE ExpireAll(_removeRequest(updateStatus(S, ids[i], "expired"), ids[i]),
                   ids, i + 1)

clearUserRequestsFirstOnly(S, userId) ==
  IF userId \notin DOMAIN S.userRequests
    THEN S
    ELSE ExpireAll(S, SubSeq(S.userRequests[userId], 1, 1), 1)

clearUserRequests(S, userId) ==
  IF userId \notin DOMAIN S.userRequests
    THEN S
    ELSE ExpireAll(S, S.userRequests[userId], 1)

CleanupOneAtTimeout(S, reqId, t) ==
  LET request == S.requests[reqId]
      age == t - request.createdAt
      timeout == IF request.buffer THEN pendingTimeout ELSE requestTimeout
  IN IF request.status \in {"completed", "failed"} /\ age > completedGracePeriod
       THEN _removeRequest(S, reqId)
     ELSE IF request.status = "pending" /\ age >= timeout
       THEN _removeRequest(updateStatus(S, reqId, "expired"), reqId)
     ELSE IF request.status = "processing" /\ age > requestTimeout
       THEN _removeRequest(updateStatus(S, reqId, "expired"), reqId)
     ELSE S

(* one iteration of the sweep's loop over this.requests.entries() *)
CleanupOne(S, reqId, t) ==
  LET request == S.requests[reqId]
      age == t - request.createdAt
      timeout == IF request.buffer THEN pendingTimeout ELSE requestTimeout
  IN IF request.status \in {"completed", "failed"} /\ age > completedGracePeriod
       THEN _removeRequest(S, reqId)
     ELSE IF request.status = "pending" /\ age > timeout
       THEN _removeRequest(updateStatus(S, reqId, "expired"), reqId)
     ELSE IF request.status = "processing" /\ age > requestTimeout
       THEN _removeRequest(updateStatus(S, reqId, "expired"), reqId)
     ELSE S

RECURSIVE CleanupLoop(_, _, _)
CleanupLoop(S, ids, t) ==
  IF ids = {}
    THEN S
    ELSE LET reqId == CHOOSE x \in ids : \A y \in ids : x <= y
         IN CleanupLoop(CleanupOne(S, reqId, t), ids \ {reqId}, t)

_cleanupPendingOnly(S, t) ==
  CleanupLoop(S, {id \in DOMAIN S.requests :
                    S.requests[id].status = "pending"}, t)

_cleanup(S, t) == CleanupLoop(S, DOMAIN S.requests, t)

----------------------------------------------------------------------------
(* Limiter operations as steps of the program *)

CheckLimit(chatId, userId) ==
  LET r == checkLimit(usage, chatId, userId, now, hostUtcOffset)
  IN /\ usage' = r.usage
     /\ ret' = r.result
     /\ UNCHANGED <<now, hostUtcOffset, delivered, pc, rmVars, collectorVars,
                  cacheVars, serviceVars>>

Consume(chatId, userId) ==
  LET r == consume(usage, chatId, userId, now, hostUtcOffset)
  IN /\ usage' = r.usage
     /\ ret' = r.result
     /\ UNCHANGED <<now, hostUtcOffset, delivered, pc, rmVars, collectorVars,
                  cacheVars, serviceVars>>

(* the hourly setInterval callback *)
CheckResets ==
  /\ usage' = _checkResets(usage, now, hostUtcOffset)
  /\ ret' = [op |-> "_checkResets", at |-> now]
  /\ UNCHANGED <<now, hostUtcOffset, delivered, pc, rmVars, collectorVars,
                  cacheVars, serviceVars>>

(* Passage of time in the limiter's specification: four-hour steps from a   *)
(* Sunday afternoon (Singapore) across the Monday 00:00 boundary.           *)
MaxLimiterTicks == 3
LimiterStep == 4 * HourMs
LimiterStart == 6 * DayMs + 14 * HourMs

LimiterTick ==
  /\ now + LimiterStep <= LimiterStart + MaxLimiterTicks * LimiterStep
  /\ now' = now + LimiterStep
  /\ UNCHANGED <<ret, limiterVars, rmVars, collectorVars, cacheVars, serviceVars>>

(* _getNextMondayReset() called on its own, at the current time *)
GetNextMondayReset ==
  /\ ret' = [op |-> "_getNextMondayReset", at |-> now,
             resetAt |-> _getNextMondayReset(now, hostUtcOffset)]
  /\ UNCHANGED <<now, limiterVars, rmVars, collectorVars, cacheVars, serviceVars>>

(* The clock read by _getNextMondayReset: every half hour of a week and a  *)
(* day, from a Monday 00:00 in Singapore                                    *)
MaxResetTicks == 384
ResetStep == HourMs \div 2

ResetTick ==
  /\ now + ResetStep <= MaxResetTicks * ResetStep
  /\ now' = now + ResetStep
  /\ ret' = NoRet
  /\ UNCHANGED <<limiterVars, rmVars, collectorVars, cacheVars, serviceVars>>

(* Two members of one group, each sending photos and pressing the button   *)
Handlers == {1, 2}
HandlerChat == -1
Idle == [at |-> "idle", requestId |-> Null]

InitLimiter ==
  /\ hostUtcOffset \in HostUtcOffsets
  /\ usage = EmptyMap
  /\ delivered = EmptyMap
  /\ pc = [h \in Handlers |-> Idle]

----------------------------------------------------------------------------
(* Request manager operations as steps of the program.  A handler keeps the *)
(* id of its request across its awaits, so an operation may name any id     *)
(* generated so far, live or not.                                           *)

InitRM ==
  /\ rm = [requests |-> EmptyMap, userRequests |-> EmptyMap,
           chatRequests |-> EmptyMap,
           stats |-> [totalRequests |-> 0, completedRequests |-> 0,
                      failedRequests |-> 0, expiredRequests |-> 0]]
  /\ idSeq = 0

GeneratedIds == 1..idSeq

(* requestManager.createRequest(ctx), at most maxIds times in a run *)
CreateRequest(chatId, userId, maxIds) ==
  /\ idSeq < maxIds
  /\ LET requestId == _generateRequestId(idSeq)
     IN /\ rm' = createRequest(rm, requestId, userId, chatId, EmptyMap, now)
        /\ idSeq' = requestId
        /\ ret' = NoRet
  /\ UNCHANGED <<now, limiterVars, collectorVars, cacheVars, serviceVars>>

(* `req_${Date.now()}_${crypto.randomBytes(4).toString('hex')}` with the    *)
(* random bytes as an input: the pair of the millisecond and the bytes,    *)
(* numbered from 1.  The bytes are cut to the values of RandomBytes.       *)
RandomBytes == {0, 1}

_generateRequestIdFrom(t, bytes) == t * Cardinality(RandomBytes) + bytes + 1

(* requestManager.createRequest(ctx) with the id the generator returns for *)
(* the bytes drawn, at most MaxDrawnRequests times in a run                 *)
MaxDrawnRequests == 3

CreateRequestDrawn(chatId, userId, bytes) ==
  /\ rm.stats.totalRequests < MaxDrawnRequests
  /\ LET requestId == _generateRequestIdFrom(now, bytes)
     IN /\ rm' = createRequest(rm, requestId, userId, chatId, EmptyMap, now)
        /\ ret' = [op |-> "createRequest", requestId |-> requestId,
                   live |-> DOMAIN rm.requests]
  /\ UNCHANGED <<now, idSeq, limiterVars, collectorVars, cacheVars, serviceVars>>

(* Passage of time between createRequest calls, one millisecond a step *)
MaxIdTicks == 2

IdTick ==
  /\ now + 1 <= MaxIdTicks
  /\ now' = now + 1
  /\ ret' = NoRet
  /\ UNCHANGED <<limiterVars, rmVars, collectorVars, cacheVars, serviceVars>>

(* requestManager.updateStatus(requestId, 'processing') *)
BeginProcessing(requestId) ==
  /\ rm' = updateStatus(rm, requestId, "processing")
  /\ ret' = NoRet
  /\ UNCHANGED <<now, idSeq, limiterVars, collectorVars, cacheVars, serviceVars>>

(* const req = getRequest(requestId);                                       *)
(* if (req) { req.buffer = buffer; ...; req.status = 'pending'; }           *)
AwaitLocation(requestId) ==
  /\ rm' = IF getRequest(rm, requestId) # Null
             THEN [rm EXCEPT !.requests[requestId].buffer = TRUE,
                             !.requests[requestId].status = "pending"]
             ELSE rm
  /\ ret' = NoRet
  /\ UNCHANGED <<now, idSeq, limiterVars, collectorVars, cacheVars, serviceVars>>

CompleteAndRemove(requestId) ==
  /\ rm' = completeAndRemove(rm, requestId)
  /\ ret' = NoRet
  /\ UNCHANGED <<now, idSeq, limiterVars, collectorVars, cacheVars, serviceVars>>

(* updateStatus(requestId, 'failed', { error }); _removeRequest(requestId)  *)
FailAndRemove(requestId) ==
  /\ rm' = _removeRequest(updateStatus(rm, requestId, "failed"), requestId)
  /\ ret' = NoRet
  /\ UNCHANGED <<now, idSeq, limiterVars, collectorVars, cacheVars, serviceVars>>

(* processSinglePhotoFromFileId throws: its catch block calls              *)
(* completeAndRemove(requestId) and rethrows, and the caller's .catch then  *)
(* calls updateStatus(requestId, 'failed', { error: err })                  *)
SinglePhotoFails(requestId) ==
  /\ rm' = updateStatus(completeAndRemove(rm, requestId), requestId, "failed")
  /\ ret' = NoRet
  /\ UNCHANGED <<now, idSeq, limiterVars, collectorVars, cacheVars, serviceVars>>

ClearUserRequests(userId) ==
  /\ rm' = clearUserRequests(rm, userId)
  /\ ret' = NoRet
  /\ UNCHANGED <<now, idSeq, limiterVars, collectorVars, cacheVars, serviceVars>>

(* the setInterval(() => this._cleanup(), cleanupInterval) callback *)
Cleanup ==
  /\ rm' = _cleanup(rm, now)
  /\ ret' = [op |-> "_cleanup",
             cleaned |-> Cardinality(DOMAIN rm.requests)
                           - Cardinality(DOMAIN _cleanup(rm, now).requests)]
  /\ UNCHANGED <<now, idSeq, limiterVars, collectorVars, cacheVars, serviceVars>>

FindPendingRequest(userId, chatId) ==
  /\ ret' = [op |-> "findPendingRequest", userId |-> userId,
             chatId |-> chatId,
             requestId |-> findPendingRequest(rm, userId, chatId)]
  /\ UNCHANGED <<now, rmVars, limiterVars, collectorVars, cacheVars, serviceVars>>

(* Passage of time in the request manager's specifications: two sweep      *)
(* intervals per step.  Requests are created only while the rest of the     *)
(* modelled time span is longer than the longest timeout.                   *)
MaxRMTicks == 4
MaxRequests == 2
RMStep == 2 * cleanupInterval
RMEnd == MaxRMTicks * RMStep

RMTick ==
  /\ now + RMStep <= RMEnd
  /\ now' = now + RMStep
  /\ ret' = NoRet
  /\ UNCHANGED <<limiterVars, rmVars, collectorVars, cacheVars, serviceVars>>

----------------------------------------------------------------------------
(* The handlers that take a single photo through the pipeline.  Member h of *)
(* the group is user h; a handler run is cut where it awaits the network.   *)

WeekOf(t) == t \div WeekMs

(* What a handler that consulted checkLimit sent to the chat: the reply     *)
(* "Weekly limit reached" with the reset time, the offer to identify, the  *)
(* location prompt, or nothing.                                             *)
LimitReachedReply(op, result) ==
  [op |-> op, allowed |-> FALSE, reply |-> "limitReached",
   resetAt |-> result.resetAt]

OtherReply(op, allowed, reply) ==
  [op |-> op, allowed |-> allowed, reply |-> reply, resetAt |-> Null]

(* bot.on('message:photo'): a single photo, or the collected photos of a    *)
(* media group; the offer to identify is shown unless the key is at its    *)
(* limit, and then the handler returns.                                     *)
PhotoKinds == {"photo", "mediaGroup"}

PhotoShared(h, kind) ==
  /\ LET limitCheck == checkLimit(usage, HandlerChat, h, now, hostUtcOffset)
     IN /\ usage' = limitCheck.usage
        /\ ret' = IF limitCheck.result.allowed
                     THEN OtherReply(kind, TRUE, "offer")
                     ELSE OtherReply(kind, FALSE, "none")
  /\ UNCHANGED <<now, hostUtcOffset, delivered, pc, rmVars, collectorVars,
                 cacheVars, serviceVars>>

(* bot.command('identify') in reply to a photo without EXIF position:       *)
(* checkLimit, then createRequest, the location prompt, and the request     *)
(* left pending with its buffer.  A member has at most MaxOpenRequests     *)
(* photos awaiting a location.                                              *)
MaxOpenRequests == 2

IdentifyCommandUnchecked(h) ==
  /\ pc[h] = Idle
  /\ Len(IndexGet(rm.userRequests, h)) < MaxOpenRequests
  /\ LET limitCheck == checkLimit(usage, HandlerChat, h, now, hostUtcOffset)
         requestId == _generateRequestId(idSeq)
         data == [chatId |-> HandlerChat, userId |-> h]
     IN /\ usage' = limitCheck.usage
        /\ rm' = [createRequest(rm, requestId, h, HandlerChat, data, now)
                    EXCEPT !.requests[requestId].buffer = TRUE]
        /\ idSeq' = requestId
        /\ ret' = OtherReply("identify", limitCheck.result.allowed,
                             "locationPrompt")
  /\ UNCHANGED <<now, hostUtcOffset, delivered, pc, collectorVars, cacheVars, serviceVars>>

IdentifyCommand(h) ==
  /\ pc[h] = Idle
  /\ Len(IndexGet(rm.userRequests, h)) < MaxOpenRequests
  /\ LET limitCheck == checkLimit(usage, HandlerChat, h, now, hostUtcOffset)
         requestId == _generateRequestId(idSeq)
         data == [chatId |-> HandlerChat, userId |-> h]
     IN /\ usage' = limitCheck.usage
        /\ IF limitCheck.result.allowed
             THEN /\ rm' = [createRequest(rm, requestId, h, HandlerChat,
                                          data, now)
                             EXCEPT !.requests[requestId].buffer = TRUE]
                  /\ idSeq' = requestId
                  /\ ret' = OtherReply("identify", TRUE, "locationPrompt")
             ELSE /\ ret' = LimitReachedReply("identify", limitCheck.result)
                  /\ UNCHANGED <<rm, idSeq>>
  /\ UNCHANGED <<now, hostUtcOffset, delivered, pc, collectorVars, cacheVars, serviceVars>>

(* handleCallbackQuery, decision 'yes', key 'photo_...': checkLimit, then    *)
(* createRequest and the start of processSinglePhotoFromFileId up to its    *)
(* first await.  A member answers the location prompt of one photo before  *)
(* pressing the button of the next.                                         *)
YesPressed(h) ==
  /\ pc[h] = Idle
  /\ h \notin DOMAIN rm.userRequests
  /\ LET limitCheck == checkLimit(usage, HandlerChat, h, now, hostUtcOffset)
         requestId == _generateRequestId(idSeq)
         data == [chatId |-> HandlerChat, userId |-> h]
     IN /\ usage' = limitCheck.usage
        /\ ret' = IF limitCheck.result.allowed
                     THEN NoRet
                     ELSE LimitReachedReply("yes", limitCheck.result)
        /\ IF limitCheck.result.allowed
             THEN /\ rm' = updateStatus(createRequest(rm, requestId, h,
                                                      HandlerChat, data, now),
                                        requestId, "processing")
                  /\ idSeq' = requestId
                  /\ pc' = [pc EXCEPT ![h] = [at |-> "downloaded",
                                              requestId |-> requestId]]
             ELSE UNCHANGED <<rm, idSeq, pc>>
  /\ UNCHANGED <<now, hostUtcOffset, delivered, collectorVars, cacheVars, serviceVars>>

(* processSinglePhotoFromFileId without EXIF position: the location prompt   *)
(* is sent and the request is left pending with its buffer.                 *)
AskLocation(h) ==
  /\ pc[h].at = "downloaded"
  /\ rm' = IF getRequest(rm, pc[h].requestId) # Null
             THEN [rm EXCEPT !.requests[pc[h].requestId].buffer = TRUE,
                             !.requests[pc[h].requestId].status = "pending"]
             ELSE rm
  /\ pc' = [pc EXCEPT ![h] = Idle]
  /\ ret' = NoRet
  /\ UNCHANGED <<now, idSeq, hostUtcOffset, usage, delivered, collectorVars,
                 cacheVars, serviceVars>>

(* bot.on('message:text'): the user's location for the pending request of   *)
(* this chat; the handler then awaits processIdentification.                *)
LocationText(h) ==
  /\ pc[h] = Idle
  /\ findPendingRequest(rm, h, HandlerChat) # Null
  /\ LET requestId == findPendingRequest(rm, h, HandlerChat)
     IN /\ rm' = updateStatus(rm, requestId, "processing")
        /\ pc' = [pc EXCEPT ![h] = [at |-> "located",
                                    requestId |-> requestId]]
  /\ ret' = NoRet
  /\ UNCHANGED <<now, idSeq, hostUtcOffset, usage, delivered, collectorVars,
                 cacheVars, serviceVars>>

(* bot.on('message:text') and bot.command('skip') as they run: invocation h *)
(* of the handler, for a follow-up of user ResumeUser, finds the pending    *)
(* request, captures its fields and suspends in await deleteMessage.        *)
ResumeUser == 1

FollowUpReceived(h) ==
  /\ pc[h] = Idle
  /\ findPendingRequest(rm, ResumeUser, HandlerChat) # Null
  /\ pc' = [pc EXCEPT ![h] =
               [at |-> "found",
                requestId |-> findPendingRequest(rm, ResumeUser, HandlerChat)]]
  /\ ret' = NoRet
  /\ UNCHANGED <<now, hostUtcOffset, usage, delivered, rmVars, collectorVars,
                 cacheVars, serviceVars>>

(* ... and resumes: updateStatus(requestId, 'processing'), then the         *)
(* pipeline run on the captured buffer begins.                              *)
FollowUpResumes(h) ==
  /\ pc[h].at = "found"
  /\ rm' = updateStatus(rm, pc[h].requestId, "processing")
  /\ pc' = [pc EXCEPT ![h].at = "located"]
  /\ ret' = [op |-> "resume", requestId |-> pc[h].requestId,
             statusBefore |->
               IF getRequest(rm, pc[h].requestId) # Null
                 THEN rm.requests[pc[h].requestId].status
                 ELSE "removed"]
  /\ UNCHANGED <<now, idSeq, hostUtcOffset, usage, delivered, collectorVars,
                 cacheVars, serviceVars>>

(* processIdentification sends the identification result to the chat *)
DeliverResult(h) ==
  /\ pc[h].at \in {"downloaded", "located"}
  /\ LET key == _getKeyAndLimit(HandlerChat, h).key
         sent == IF key \in DOMAIN delivered
                      /\ delivered[key].week = WeekOf(now)
                   THEN delivered[key].count
                   ELSE 0
     IN delivered' = MapPut(delivered, key,
                            [week |-> WeekOf(now), count |-> sent + 1])
  /\ pc' = [pc EXCEPT ![h].at = "delivered"]
  /\ ret' = NoRet
  /\ UNCHANGED <<now, hostUtcOffset, usage, rmVars, collectorVars, cacheVars, serviceVars>>

(* getINaturalistPhoto: a taxon with a default photo, or nothing.  null in  *)
(* a field that otherwise holds a string is written "null".                *)
NullString == "null"

INaturalistLookups ==
  {[found |-> TRUE, photoUrl |-> "medium_url", taxonId |-> 1, name |-> "Pan"],
   [found |-> FALSE, photoUrl |-> NullString, taxonId |-> Null,
    name |-> NullString]}

(* getSpeciesPhoto, given what getINaturalistPhoto returned *)
getSpeciesPhoto(iNatPhoto) ==
  IF iNatPhoto.found /\ iNatPhoto.photoUrl # NullString
    THEN [found |-> TRUE, photoUrl |-> iNatPhoto.photoUrl,
          taxonId |-> iNatPhoto.taxonId, taxonName |-> iNatPhoto.name]
    ELSE [found |-> FALSE, photoUrl |-> NullString, taxonId |-> Null,
          taxonName |-> NullString]

(* iNatPhoto.taxonName.replace(/\s+/g, '-') and the link built from it:    *)
(* calling replace on null throws a TypeError                               *)
iNaturalistUrl(iNatPhoto) ==
  IF iNatPhoto.taxonName = NullString
    THEN "TypeError"
    ELSE "taxa_link"

(* The message processIdentification ends with for an identified animal:   *)
(* the composite photo or the text, each with the follow-up buttons, or    *)
(* the error message of its catch block.                                    *)
resultMessage(iNatPhoto) ==
  IF iNaturalistUrl(iNatPhoto) = "TypeError"
    THEN "error"
    ELSE IF iNatPhoto.found /\ iNatPhoto.photoUrl # NullString
           THEN "photoWithButtons"
           ELSE "textWithButtons"

(* processIdentification for a photo the classifier identified, from the    *)
(* reference-photo lookup to the message sent                               *)
SendResult(h, lookup) ==
  /\ pc[h].at \in {"downloaded", "located"}
  /\ LET iNatPhoto == getSpeciesPhoto(lookup)
         message == resultMessage(iNatPhoto)
         key == _getKeyAndLimit(HandlerChat, h).key
         sent == IF key \in DOMAIN delivered
                      /\ delivered[key].week = WeekOf(now)
                   THEN delivered[key].count
                   ELSE 0
     IN /\ ret' = [op |-> "processIdentification", found |-> iNatPhoto.found,
                   message |-> message]
        /\ IF message = "error"
             THEN /\ pc' = [pc EXCEPT ![h].at = "reported"]
                  /\ UNCHANGED delivered
             ELSE /\ pc' = [pc EXCEPT ![h].at = "delivered"]
                  /\ delivered' = MapPut(delivered, key,
                                         [week |-> WeekOf(now),
                                          count |-> sent + 1])
  /\ UNCHANGED <<now, hostUtcOffset, usage, rmVars, collectorVars, cacheVars, serviceVars>>

(* processIdentification on a classifier outcome with success false or      *)
(* identified false, or on an exception: the explanatory or the error       *)
(* message is sent and the function returns normally to its caller.        *)
ReportFailure(h) ==
  /\ pc[h].at \in {"downloaded", "located"}
  /\ pc' = [pc EXCEPT ![h].at = "reported"]
  /\ ret' = NoRet
  /\ UNCHANGED <<now, hostUtcOffset, usage, delivered, rmVars, collectorVars,
                 cacheVars, serviceVars>>

(* after the await: rateLimiter.consume(chatId, userId), whose result is    *)
(* only logged, and requestManager.completeAndRemove(requestId)             *)
ConsumeAndComplete(h) ==
  /\ pc[h].at \in {"delivered", "reported"}
  /\ LET consumed == consume(usage, HandlerChat, h, now, hostUtcOffset)
     IN usage' = consumed.usage
  /\ ret' = NoRet
  /\ rm' = completeAndRemove(rm, pc[h].requestId)
  /\ pc' = [pc EXCEPT ![h] = Idle]
  /\ UNCHANGED <<now, idSeq, hostUtcOffset, delivered, collectorVars,
                 cacheVars, serviceVars>>

(* Passage of time for the handlers: from a Tuesday 00:00 (Singapore) in    *)
(* steps of three days, while no photo is in the pipeline.                  *)
MaxHandlerTicks == 1
HandlerStep == 3 * DayMs
HandlerStart == DayMs

HandlerTick ==
  /\ now + HandlerStep <= HandlerStart + MaxHandlerTicks * HandlerStep
  /\ \A h \in Handlers : pc[h] = Idle
  /\ rm.requests = EmptyMap
  /\ now' = now + HandlerStep
  /\ ret' = NoRet
  /\ UNCHANGED <<limiterVars, rmVars, collectorVars, cacheVars, serviceVars>>

----------------------------------------------------------------------------
(* MEDIA GROUP COLLECTOR *)

collectTimeout == 1000

MediaGroupIds == {"albumA", "albumB"}

(* A promise returned by addPhoto: not yet resolved, resolved with null, or *)
(* resolved with group.photos.  A photo is named by its message id.        *)
PendingPromise == [state |-> "pending", value |-> <<>>]
NullPromise == [state |-> "null", value |-> <<>>]
BatchPromise(photos) == [state |-> "batch", value |-> photos]

addPhotoTimerClearsAll(G, P, mediaGroupId) ==
  [groups |-> EmptyMap,
   promises |-> IF mediaGroupId \in DOMAIN G
                  THEN [P EXCEPT ![G[mediaGroupId].resolve] =
                                    BatchPromise(G[mediaGroupId].photos)]
                  ELSE P]

(* The callback given to setTimeout by the addPhoto call that opened the    *)
(* group; `resolve` is the resolve function of that call's promise.         *)
addPhotoTimer(G, P, mediaGroupId) ==
  [groups |-> MapRemove(G, mediaGroupId),
   promises |-> IF mediaGroupId \in DOMAIN G
                  THEN [P EXCEPT ![G[mediaGroupId].resolve] =
                                    BatchPromise(G[mediaGroupId].photos)]
                  ELSE P]

addPhotoNewestFirst(G, P, mediaGroupId, chatId, userId, messageId, t) ==
  IF mediaGroupId \notin DOMAIN G
    THEN [groups |-> MapPut(G, mediaGroupId,
                            [photos |-> <<messageId>>, chatId |-> chatId,
                             userId |-> userId, timer |-> t + collectTimeout,
                             resolve |-> Len(P) + 1]),
          promises |-> Append(P, PendingPromise)]
    ELSE [groups |-> [G EXCEPT ![mediaGroupId].photos = <<messageId>> \o @],
          promises |-> Append(P, NullPromise)]

addPhotoAnswersEveryCaller(G, P, mediaGroupId, chatId, userId, messageId, t) ==
  IF mediaGroupId \notin DOMAIN G
    THEN [groups |-> MapPut(G, mediaGroupId,
                            [photos |-> <<messageId>>, chatId |-> chatId,
                             userId |-> userId, timer |-> t + collectTimeout,
                             resolve |-> Len(P) + 1]),
          promises |-> Append(P, PendingPromise)]
    ELSE [groups |-> [G EXCEPT ![mediaGroupId].photos = Append(@, messageId)],
          promises |-> Append(P, BatchPromise(Append(G[mediaGroupId].photos,
                                                     messageId)))]

(* addPhoto(mediaGroupId, ctx): the promise it returns is the next entry of *)
(* P; the timer is kept as the earliest time at which its callback can run. *)
addPhoto(G, P, mediaGroupId, chatId, userId, messageId, t) ==
  IF mediaGroupId \notin DOMAIN G
    THEN [groups |-> MapPut(G, mediaGroupId,
                            [photos |-> <<messageId>>, chatId |-> chatId,
                             userId |-> userId, timer |-> t + collectTimeout,
                             resolve |-> Len(P) + 1]),
          promises |-> Append(P, PendingPromise)]
    ELSE [groups |-> [G EXCEPT ![mediaGroupId].photos = Append(@, messageId)],
          promises |-> Append(P, NullPromise)]

InitCollector ==
  /\ groups = EmptyMap
  /\ arrivals = <<>>
  /\ promises = <<>>

(* How many collection windows of a media group id have been closed *)
WindowsClosed(mediaGroupId) ==
  Cardinality({i \in 1..Len(arrivals) :
                 /\ arrivals[i].mediaGroupId = mediaGroupId
                 /\ promises[i].state = "batch"})

MaxPhotos == 4

(* bot.on('message:photo') with ctx.message.media_group_id set: the handler *)
(* awaits mediaGroupCollector.addPhoto(mediaGroupId, ctx).  Message ids     *)
(* grow with every message.                                                 *)
AddPhoto(mediaGroupId, chatId, userId) ==
  /\ Len(arrivals) < MaxPhotos
  /\ LET messageId == Len(arrivals) + 1
         r == addPhoto(groups, promises, mediaGroupId, chatId, userId,
                       messageId, now)
     IN /\ groups' = r.groups
        /\ promises' = r.promises
        /\ arrivals' = Append(arrivals,
                              [mediaGroupId |-> mediaGroupId,
                               window |-> WindowsClosed(mediaGroupId),
                               at |-> now])
  /\ ret' = NoRet
  /\ UNCHANGED <<now, limiterVars, rmVars, cacheVars, serviceVars>>

(* The group's timer fires: not before its delay has elapsed, possibly      *)
(* later.                                                                   *)
TimerFire(mediaGroupId) ==
  /\ mediaGroupId \in DOMAIN groups
  /\ now >= groups[mediaGroupId].timer
  /\ LET r == addPhotoTimer(groups, promises, mediaGroupId)
     IN /\ groups' = r.groups
        /\ promises' = r.promises
  /\ ret' = NoRet
  /\ UNCHANGED <<now, arrivals, limiterVars, rmVars, cacheVars, serviceVars>>

MaxCollectorTicks == 4
CollectorStep == 500

CollectorTick ==
  /\ now + CollectorStep <= MaxCollectorTicks * CollectorStep
  /\ now' = now + CollectorStep
  /\ UNCHANGED <<ret, limiterVars, rmVars, collectorVars, cacheVars, serviceVars>>

----------------------------------------------------------------------------
(* RESULT CACHE *)

ttl == 300000

(* Strings are sequences of characters *)
Digits == <<"0", "1", "2", "3", "4", "5", "6", "7", "8", "9">>

RECURSIVE DecimalNat(_)
DecimalNat(n) ==
  IF n < 10
    THEN <<Digits[n + 1]>>
    ELSE DecimalNat(n \div 10) \o <<Digits[(n % 10) + 1]>>

(* `${chatId}` *)
Decimal(n) == IF n < 0 THEN <<"-">> \o DecimalNat(-n) ELSE DecimalNat(n)

startsWith(str, prefix) ==
  Len(prefix) <= Len(str) /\ SubSeq(str, 1, Len(prefix)) = prefix

(* static makeKey(chatId, scientificName): `${chatId}_${scientificName}` *)
makeKey(chatId, scientificName) == Decimal(chatId) \o <<"_">> \o scientificName

set(C, key, value, t) == MapPut(C, key, [value |-> value, timestamp |-> t])

getNeverExpires(C, key, t) ==
  IF key \notin DOMAIN C
    THEN [cache |-> C, value |-> Null]
    ELSE [cache |-> C, value |-> C[key].value]

(* get(key): the value returned and the cache it leaves *)
get(C, key, t) ==
  IF key \notin DOMAIN C
    THEN [cache |-> C, value |-> Null]
  ELSE IF t - C[key].timestamp > ttl
    THEN [cache |-> MapRemove(C, key), value |-> Null]
    ELSE [cache |-> C, value |-> C[key].value]

remove(C, key) == MapRemove(C, key)

clearChatBarePrefix(C, chatId) ==
  LET prefix == Decimal(chatId)
  IN [key \in {k \in DOMAIN C : ~startsWith(k, prefix)} |-> C[key]]

clearChat(C, chatId) ==
  LET prefix == Decimal(chatId) \o <<"_">>
  IN [key \in {k \in DOMAIN C : ~startsWith(k, prefix)} |-> C[key]]

(* ResultCache._cleanup, the two-minute setInterval callback *)
cacheCleanup(C, t) ==
  [key \in {k \in DOMAIN C : ~(t - C[k].timestamp > ttl)} |-> C[key]]

InitCache ==
  /\ cache = EmptyMap
  /\ written = EmptyMap
  /\ valSeq = 0

(* Chats whose decimal ids are a prefix of one another, and a group *)
CacheChatIds == {1, 12, -1}
ScientificNames == {<<"P", "a", "n">>}

MaxCacheSets == 3

(* identificationCache.set(ResultCache.makeKey(chatId, d.scientificName), d) *)
(* Every result object d is a new one.                                      *)
CacheSet(chatId, scientificName) ==
  /\ valSeq < MaxCacheSets
  /\ LET key == makeKey(chatId, scientificName)
         d == valSeq + 1
     IN /\ cache' = set(cache, key, d, now)
        /\ written' = MapPut(written, key,
                             [value |-> d, timestamp |-> now,
                              chatId |-> chatId])
        /\ valSeq' = d
  /\ ret' = NoRet
  /\ UNCHANGED <<now, limiterVars, rmVars, collectorVars, serviceVars>>

(* identificationCache.get(ResultCache.makeKey(chatId, scientificName)) *)
CacheGet(chatId, scientificName) ==
  LET key == makeKey(chatId, scientificName)
      r == get(cache, key, now)
  IN /\ cache' = r.cache
     /\ ret' = [op |-> "get", key |-> key, value |-> r.value,
                evicted |-> key \in DOMAIN cache /\ key \notin DOMAIN r.cache]
     /\ UNCHANGED <<now, written, valSeq, limiterVars, rmVars, collectorVars, serviceVars>>

(* /clear: identificationCache.clearChat(chatId) *)
CacheClearChat(chatId) ==
  /\ cache' = clearChat(cache, chatId)
  /\ written' = [key \in {k \in DOMAIN written : written[k].chatId # chatId}
                   |-> written[key]]
  /\ ret' = [op |-> "clearChat", chatId |-> chatId,
             removed |-> Cardinality(DOMAIN cache)
                           - Cardinality(DOMAIN clearChat(cache, chatId))]
  /\ UNCHANGED <<now, valSeq, limiterVars, rmVars, collectorVars, serviceVars>>

CacheCleanup ==
  /\ cache' = cacheCleanup(cache, now)
  /\ ret' = NoRet
  /\ UNCHANGED <<now, written, valSeq, limiterVars, rmVars, collectorVars, serviceVars>>

(* Passage of time in the cache's specification, half a TTL per step *)
MaxCacheTicks == 3
CacheStep == ttl \div 2

CacheTick ==
  /\ now + CacheStep <= MaxCacheTicks * CacheStep
  /\ now' = now + CacheStep
  /\ ret' = NoRet
  /\ UNCHANGED <<limiterVars, rmVars, collectorVars, cacheVars, serviceVars>>

----------------------------------------------------------------------------
(* SPECIFICATIONS *)

----------------------------------------------------------------------------
(* CLASSIFIER CALL (identifyAnimal) *)

MODELS == <<"gemini-2.5-pro", "gemini-2.0-flash">>
attemptsPerModel == 3
retryWaitUnit == 20000
callTimeout == 60000

(* An error message, by the fragments the code searches it for; a message  *)
(* without such a fragment is the set of its own text.                      *)
ErrorMessages ==
  {{"Quota"}, {"429", "quota"}, {"rate"}, {"resource exhausted"},
   {"Timeout after 60s"}, {"No valid JSON in response"},
   {"Failed to parse JSON"}, {"fetch failed"}}

toLowerCase(message) ==
  {IF fragment = "Quota" THEN "quota" ELSE fragment : fragment \in message}

includes(message, fragment) == fragment \in message

(* What one generateContent call can end in: a text holding a JSON object  *)
(* (an identification, or a quality failure with identified false), a      *)
(* text whose braces do not parse, a text without braces, the 60 s         *)
(* timeout, or an error thrown by the client library.                       *)
Responses ==
  [kind : {"json"}, identified : BOOLEAN]
    \cup [kind : {"badJson", "noJson", "timeout"}]
    \cup [kind : {"apiError"}, message : ErrorMessages]

(* The error the try block throws for a response; none for a response the  *)
(* code returns                                                             *)
NoError == {}

thrownBy(response) ==
  CASE response.kind = "json" -> NoError
    [] response.kind = "badJson" -> {"Failed to parse JSON"}
    [] response.kind = "noJson" -> {"No valid JSON in response"}
    [] response.kind = "timeout" -> {"Timeout after 60s"}
    [] response.kind = "apiError" -> response.message

isQuotaError(message) ==
  \/ includes(toLowerCase(message), "quota")
  \/ includes(toLowerCase(message), "rate")
  \/ includes(toLowerCase(message), "429")
  \/ includes(toLowerCase(message), "resource exhausted")

IdleClassifier ==
  [state |-> "idle", model |-> 1, attempt |-> 1, calls |-> 0,
   log |-> <<>>, result |-> NoRet]

(* The catch block: wait and retry the same model, or go to the next       *)
(* model, or return the failure after the last model                       *)
afterErrorRetriesAlways(c, message) ==
  IF c.attempt < attemptsPerModel
    THEN [c EXCEPT !.state = "waiting"]
    ELSE IF c.model < Len(MODELS)
           THEN [c EXCEPT !.model = @ + 1, !.attempt = 1]
           ELSE [c EXCEPT !.state = "returned",
                          !.result = [success |-> FALSE, error |-> message]]

afterError(c, message) ==
  IF isQuotaError(message) /\ c.attempt < attemptsPerModel
    THEN [c EXCEPT !.state = "waiting"]
    ELSE IF c.model < Len(MODELS)
           THEN [c EXCEPT !.model = @ + 1, !.attempt = 1]
           ELSE [c EXCEPT
                   !.state = "returned",
                   !.result =
                      [success |-> FALSE,
                       error |-> IF includes(message, "quota")
                                      \/ includes(message, "Quota")
                                   THEN {"API quota exceeded"}
                                   ELSE message]]

(* One pass through the body of the attempt loop, from generateContent to  *)
(* the return or the end of the catch block                                 *)
afterResponse(c, response) ==
  LET called == [c EXCEPT !.calls = @ + 1,
                          !.log = Append(@, [model |-> c.model,
                                             attempt |-> c.attempt,
                                             response |-> response])]
  IN IF thrownBy(response) = NoError
       THEN [called EXCEPT
               !.state = "returned",
               !.result = [success |-> TRUE,
                           data |-> [identified |-> response.identified],
                           model |-> MODELS[c.model]]]
       ELSE afterError(called, thrownBy(response))

InitClassifier == classifier = IdleClassifier

(* identifyAnimal(imageBuffer, mimeType, options) is called *)
IdentifyAnimal ==
  /\ classifier.state = "idle"
  /\ classifier' = [classifier EXCEPT !.state = "calling"]
  /\ ret' = NoRet
  /\ UNCHANGED <<now, limiterVars, rmVars, collectorVars, cacheVars, offerVars,
                 followVars>>

(* The awaited generateContent call ends, or its timeout does *)
ClassifierResponds(response) ==
  /\ classifier.state = "calling"
  /\ classifier' = afterResponse(classifier, response)
  /\ now' = IF response.kind = "timeout" THEN now + callTimeout ELSE now
  /\ ret' = classifier'.result
  /\ UNCHANGED <<limiterVars, rmVars, collectorVars, cacheVars, offerVars,
                 followVars>>

(* The wait of attempt * 20 s before the next attempt on the same model *)
RetryWaitElapsed ==
  /\ classifier.state = "waiting"
  /\ classifier' = [classifier EXCEPT !.state = "calling", !.attempt = @ + 1]
  /\ now' = now + classifier.attempt * retryWaitUnit
  /\ ret' = NoRet
  /\ UNCHANGED <<limiterVars, rmVars, collectorVars, cacheVars, offerVars,
                 followVars>>

----------------------------------------------------------------------------
(* PHOTO OFFERS: a photo or an album is answered with a prompt carrying a   *)
(* Yes and a No button; the photo waits in pendingPhotos or                 *)
(* pendingPhotoGroups under the key the buttons carry.                      *)

offerExpiry == 300000

TapHandlers == {1, 2}
IdleTap == [at |-> "idle"]
OfferContexts == {<<-1, 1>>, <<1, 1>>}
AlbumSize == 2

(* `photo_${chatId}_${userId}_${messageId}` and                              *)
(* `group_${chatId}_${userId}_${Date.now()}`                                 *)
photoKey(chatId, userId, messageId) == <<"photo", chatId, userId, messageId>>
groupKey(chatId, userId, t) == <<"group", chatId, userId, t>>

(* the members of a chat: the user of a private chat, everyone in a group *)
MembersOf(chatId) == IF _isPrivateChat(chatId) THEN {chatId} ELSE UserIds

InitOffers ==
  /\ pendingPhotos = EmptyMap
  /\ pendingPhotoGroups = EmptyMap
  /\ prompts = EmptyMap
  /\ offerTimers = {}
  /\ taps = [h \in TapHandlers |-> IdleTap]
  /\ msgSeq = 0

(* bot.on('message:photo'), single photo: checkLimit, pendingPhotos.set,    *)
(* the expiry timer, and the prompt sent with ctx.reply into the chat of    *)
(* the photo.  At most maxOffers photo messages arrive in a run.            *)
OfferPhoto(chatId, userId, maxOffers) ==
  /\ msgSeq < maxOffers
  /\ LET limitCheck == checkLimit(usage, chatId, userId, now, hostUtcOffset)
         messageId == msgSeq + 1
         key == photoKey(chatId, userId, messageId)
     IN /\ usage' = limitCheck.usage
        /\ msgSeq' = messageId
        /\ IF limitCheck.result.allowed
             THEN /\ pendingPhotos' =
                       MapPut(pendingPhotos, key,
                              [messageId |-> messageId, chatId |-> chatId,
                               userId |-> userId, timestamp |-> now])
                  /\ offerTimers' = offerTimers \cup {<<key, now + offerExpiry>>}
                  /\ prompts' = MapPut(prompts, key, chatId)
                  /\ ret' = [op |-> "offer", key |-> key]
             ELSE /\ ret' = OtherReply("photo", FALSE, "none")
                  /\ UNCHANGED <<pendingPhotos, offerTimers, prompts>>
  /\ UNCHANGED <<now, hostUtcOffset, delivered, pc, rmVars, collectorVars,
                 cacheVars, classifier, followVars, pendingPhotoGroups, taps>>

(* bot.on('message:photo'), the collected photos of an album: the array of  *)
(* photo events, each with its message, here its first message and length   *)
OfferGroup(chatId, userId, maxOffers) ==
  /\ msgSeq < maxOffers
  /\ LET limitCheck == checkLimit(usage, chatId, userId, now, hostUtcOffset)
         key == groupKey(chatId, userId, now)
     IN /\ usage' = limitCheck.usage
        /\ msgSeq' = msgSeq + 1
        /\ IF limitCheck.result.allowed
             THEN /\ pendingPhotoGroups' =
                       MapPut(pendingPhotoGroups, key,
                              [photos |-> [first |-> msgSeq + 1,
                                           length |-> AlbumSize],
                               chatId |-> chatId,
                               userId |-> userId, timestamp |-> now])
                  /\ offerTimers' = offerTimers \cup {<<key, now + offerExpiry>>}
                  /\ prompts' = MapPut(prompts, key, chatId)
                  /\ ret' = [op |-> "offer", key |-> key]
             ELSE /\ ret' = OtherReply("mediaGroup", FALSE, "none")
                  /\ UNCHANGED <<pendingPhotoGroups, offerTimers, prompts>>
  /\ UNCHANGED <<now, hostUtcOffset, delivered, pc, rmVars, collectorVars,
                 cacheVars, classifier, followVars, pendingPhotos, taps>>

(* setTimeout(() => pendingPhotos.delete(photoKey), 5 * 60 * 1000) and the  *)
(* same for pendingPhotoGroups: the callback of a timer that is due         *)
OfferExpires ==
  /\ \E timer \in offerTimers :
       /\ now >= timer[2]
       /\ offerTimers' = offerTimers \ {timer}
       /\ IF timer[1][1] = "photo"
            THEN /\ pendingPhotos' = MapRemove(pendingPhotos, timer[1])
                 /\ UNCHANGED pendingPhotoGroups
            ELSE /\ pendingPhotoGroups' = MapRemove(pendingPhotoGroups, timer[1])
                 /\ UNCHANGED pendingPhotos
       /\ ret' = [op |-> "offerExpired", key |-> timer[1]]
  /\ UNCHANGED <<now, limiterVars, rmVars, collectorVars, cacheVars,
                 classifier, followVars, prompts, taps, msgSeq>>

(* handleCallbackQuery: a member of the chat taps a button of a prompt that *)
(* is still shown; run h of the handler parses the callback data and        *)
(* suspends in await ctx.answerCallbackQuery().  The chat of the callback   *)
(* is the chat of the prompt message.                                       *)
Decisions == {"yes", "no"}

TapReceived(h, key, decision, userId) ==
  /\ taps[h] = IdleTap
  /\ key \in DOMAIN prompts
  /\ userId \in MembersOf(prompts[key])
  /\ taps' = [taps EXCEPT ![h] =
                 [at |-> "answering", key |-> key, decision |-> decision,
                  userId |-> userId, chatId |-> prompts[key]]]
  /\ ret' = NoRet
  /\ UNCHANGED <<now, limiterVars, rmVars, collectorVars, cacheVars,
                 classifier, followVars, pendingPhotos, pendingPhotoGroups, prompts,
                 offerTimers, msgSeq>>

(* try { await ctx.deleteMessage() } catch (e) {}: the prompt disappears    *)
(* (or was deleted by another run already)                                  *)
PromptDeleted(h) ==
  /\ taps[h].at = "answering"
  /\ prompts' = MapRemove(prompts, taps[h].key)
  /\ taps' = [taps EXCEPT ![h].at = "deciding"]
  /\ ret' = NoRet
  /\ UNCHANGED <<now, limiterVars, rmVars, collectorVars, cacheVars,
                 classifier, followVars, pendingPhotos, pendingPhotoGroups, offerTimers,
                 msgSeq>>

(* The synchronous rest of the handler.  'no': both maps drop the key.      *)
(* 'yes': checkLimit; the entry is looked up and deleted; for an album      *)
(* processMediaGroup creates the request from the first photo's context,    *)
(* for a single photo createRequest(ctx, {chatId: photoData.chatId,         *)
(* userId, threadId}) is followed by processSinglePhotoFromFileId up to its *)
(* first await.                                                             *)
tapDecisionKeepingOffer(tap, photos, photoGroups, us, S, seq, t, hostOff) ==
  LET key == tap.key
      limitCheck == checkLimit(us, tap.chatId, tap.userId, t, hostOff)
      requestId == _generateRequestId(seq)
      same == [pendingPhotos |-> photos, pendingPhotoGroups |-> photoGroups,
               usage |-> limitCheck.usage, rm |-> S, idSeq |-> seq,
               requestId |-> Null, reply |-> "none"]
  IN IF tap.decision = "no"
       THEN [same EXCEPT !.pendingPhotos = MapRemove(photos, key),
                         !.pendingPhotoGroups = MapRemove(photoGroups, key),
                         !.usage = us]
     ELSE IF ~limitCheck.result.allowed
       THEN [same EXCEPT !.reply = "limitReached"]
     ELSE IF key[1] = "group"
       THEN IF key \notin DOMAIN photoGroups
              THEN [same EXCEPT !.reply = "expired"]
            ELSE IF limitCheck.result.remaining < photoGroups[key].photos.length
              THEN [same EXCEPT
                      !.pendingPhotoGroups = MapRemove(photoGroups, key),
                      !.reply = "notEnoughQuota"]
            ELSE [same EXCEPT
                    !.pendingPhotoGroups = MapRemove(photoGroups, key),
                    !.rm = createRequest(S, requestId, photoGroups[key].userId,
                                         photoGroups[key].chatId,
                                         [isMediaGroup |-> TRUE,
                                          photoCount |-> photoGroups[key].photos.length],
                                         t),
                    !.idSeq = requestId,
                    !.requestId = requestId,
                    !.reply = "processing"]
     ELSE IF key \notin DOMAIN photos
       THEN [same EXCEPT !.reply = "expired"]
     ELSE [same EXCEPT
             !.rm = updateStatus(
                      createRequest(S, requestId, tap.userId, tap.chatId,
                                    [chatId |-> photos[key].chatId,
                                     userId |-> tap.userId],
                                    t),
                      requestId, "processing"),
             !.idSeq = requestId,
             !.requestId = requestId]

tapDecision(tap, photos, photoGroups, us, S, seq, t, hostOff) ==
  LET key == tap.key
      limitCheck == checkLimit(us, tap.chatId, tap.userId, t, hostOff)
      requestId == _generateRequestId(seq)
      same == [pendingPhotos |-> photos, pendingPhotoGroups |-> photoGroups,
               usage |-> limitCheck.usage, rm |-> S, idSeq |-> seq,
               requestId |-> Null, reply |-> "none"]
  IN IF tap.decision = "no"
       THEN [same EXCEPT !.pendingPhotos = MapRemove(photos, key),
                         !.pendingPhotoGroups = MapRemove(photoGroups, key),
                         !.usage = us]
     ELSE IF ~limitCheck.result.allowed
       THEN [same EXCEPT !.reply = "limitReached"]
     ELSE IF key[1] = "group"
       THEN IF key \notin DOMAIN photoGroups
              THEN [same EXCEPT !.reply = "expired"]
            ELSE IF limitCheck.result.remaining < photoGroups[key].photos.length
              THEN [same EXCEPT
                      !.pendingPhotoGroups = MapRemove(photoGroups, key),
                      !.reply = "notEnoughQuota"]
            ELSE [same EXCEPT
                    !.pendingPhotoGroups = MapRemove(photoGroups, key),
                    !.rm = createRequest(S, requestId, photoGroups[key].userId,
                                         photoGroups[key].chatId,
                                         [isMediaGroup |-> TRUE,
                                          photoCount |-> photoGroups[key].photos.length],
                                         t),
                    !.idSeq = requestId,
                    !.requestId = requestId,
                    !.reply = "processing"]
     ELSE IF key \notin DOMAIN photos
       THEN [same EXCEPT !.reply = "expired"]
     ELSE [same EXCEPT
             !.pendingPhotos = MapRemove(photos, key),
             !.rm = updateStatus(
                      createRequest(S, requestId, tap.userId, tap.chatId,
                                    [chatId |-> photos[key].chatId,
                                     userId |-> tap.userId],
                                    t),
                      requestId, "processing"),
             !.idSeq = requestId,
             !.requestId = requestId]

TapDecided(h) ==
  /\ taps[h].at = "deciding"
  /\ LET r == tapDecision(taps[h], pendingPhotos, pendingPhotoGroups, usage,
                          rm, idSeq, now, hostUtcOffset)
     IN /\ pendingPhotos' = r.pendingPhotos
        /\ pendingPhotoGroups' = r.pendingPhotoGroups
        /\ usage' = r.usage
        /\ rm' = r.rm
        /\ idSeq' = r.idSeq
        /\ ret' = [op |-> "tap", key |-> taps[h].key,
                   decision |-> taps[h].decision, requestId |-> r.requestId,
                   reply |-> r.reply]
  /\ taps' = [taps EXCEPT ![h] = IdleTap]
  /\ UNCHANGED <<now, hostUtcOffset, delivered, pc, collectorVars, cacheVars,
                 classifier, followVars, prompts, offerTimers, msgSeq>>

(* Passage of time while offers wait: from the start to the instant the    *)
(* timers of the offers made at the start are due                           *)
OfferTick ==
  /\ now < offerExpiry
  /\ now' = now + offerExpiry
  /\ ret' = NoRet
  /\ UNCHANGED <<limiterVars, rmVars, collectorVars, cacheVars, serviceVars>>

----------------------------------------------------------------------------
(* processIdentification and the identification cache *)

(* processIdentification for a photo the classifier identified, after the   *)
(* names were verified: identificationCache.set(makeKey(targetChatId,       *)
(* d.scientificName), d), before the reference photo is looked up.          *)
CacheResult(h, scientificName) ==
  /\ pc[h].at \in {"downloaded", "located"}
  /\ valSeq < MaxCacheSets
  /\ LET key == makeKey(HandlerChat, scientificName)
         d == valSeq + 1
     IN /\ cache' = set(cache, key, d, now)
        /\ written' = MapPut(written, key,
                             [value |-> d, timestamp |-> now,
                              chatId |-> HandlerChat])
        /\ valSeq' = d
  /\ pc' = [pc EXCEPT ![h].at = "identified"]
  /\ ret' = NoRet
  /\ UNCHANGED <<now, hostUtcOffset, usage, delivered, rmVars, collectorVars,
                 serviceVars>>

(* ... and then the reference-photo lookup, the links and the message: the  *)
(* result with its buttons, or the error message of the catch block         *)
SendIdentified(h, lookup) ==
  /\ pc[h].at = "identified"
  /\ LET iNatPhoto == getSpeciesPhoto(lookup)
         message == resultMessage(iNatPhoto)
         key == _getKeyAndLimit(HandlerChat, h).key
         sent == IF key \in DOMAIN delivered
                      /\ delivered[key].week = WeekOf(now)
                   THEN delivered[key].count
                   ELSE 0
     IN /\ ret' = [op |-> "processIdentification", found |-> iNatPhoto.found,
                   message |-> message]
        /\ IF message = "error"
             THEN /\ pc' = [pc EXCEPT ![h].at = "reported"]
                  /\ UNCHANGED delivered
             ELSE /\ pc' = [pc EXCEPT ![h].at = "delivered"]
                  /\ delivered' = MapPut(delivered, key,
                                         [week |-> WeekOf(now),
                                          count |-> sent + 1])
  /\ UNCHANGED <<now, hostUtcOffset, usage, rmVars, collectorVars, cacheVars,
                 serviceVars>>

----------------------------------------------------------------------------
(* PHOTO BATCHES: processMediaGroup and processMediaGroupPhotos *)

(* Albums of two photos and more, up to MaxBatchPhotos; the user of the     *)
(* first photo sends the album to the group chat                            *)
MaxBatchPhotos == 3
BatchUser == 1
BatchSpecies == {<<"P", "a", "n">>, <<"B", "o", "s">>}

(* What the download of each photo of the album gave: TRUE for a buffer,    *)
(* FALSE for an error                                                       *)
BatchDownloads ==
  UNION {[1..n -> BOOLEAN] : n \in 2..MaxBatchPhotos}

(* What identifyAnimal does with one photo: it identifies a species, it     *)
(* returns without an identification (a quality failure), or it throws      *)
IdentifiedOutcomes ==
  {[kind |-> "identified", scientificName |-> n, similar |-> <<"other">>] :
     n \in BatchSpecies}

ClassifierOutcomes ==
  IdentifiedOutcomes \cup {[kind |-> "quality"], [kind |-> "thrown"]}

IdleBatch == [at |-> "idle"]

InitFollow ==
  /\ batchRun = IdleBatch
  /\ userImageCache = EmptyMap
  /\ detailTaps = [h \in {1, 2} |-> [at |-> "idle"]]
  /\ imagesSent = << >>

(* processedPhotos: Promise.all over photos.map, in the order of the album; *)
(* a buffer is named by the index of its photo                              *)
processedPhotosOf(downloads) ==
  [i \in 1..Len(downloads) |->
     IF downloads[i]
       THEN [index |-> i - 1, error |-> FALSE, buffer |-> i - 1]
       ELSE [index |-> i - 1, error |-> TRUE]]

(* processedPhotos.filter(p => !p.error) *)
validPhotosOf(processedPhotos) ==
  SelectSeq(processedPhotos, LAMBDA p : ~p.error)

(* processMediaGroup for an album without caption target whose photos carry *)
(* a location: createRequest, the downloads, and processMediaGroupPhotos up *)
(* to its loop.  Without a photo left the request is removed and the run    *)
(* is over.                                                                 *)
ProcessMediaGroup(downloads) ==
  /\ batchRun.at = "idle"
  /\ LET requestId == _generateRequestId(idSeq)
         photoCount == Len(downloads)
         created == createRequest(rm, requestId, BatchUser, HandlerChat,
                                  [isMediaGroup |-> TRUE,
                                   photoCount |-> photoCount], now)
         validPhotos == validPhotosOf(processedPhotosOf(downloads))
     IN /\ idSeq' = requestId
        /\ IF Len(validPhotos) = 0
             THEN /\ rm' = _removeRequest(created, requestId)
                  /\ batchRun' = [at |-> "done", requestId |-> requestId,
                                  validPhotos |-> validPhotos,
                                  results |-> << >>, calls |-> << >>,
                                  speciesGroups |-> << >>, sent |-> 0]
                  /\ ret' = [op |-> "processMediaGroupPhotos",
                             reply |-> "failedAll"]
             ELSE /\ rm' = created
                  /\ batchRun' = [at |-> "classifying",
                                  requestId |-> requestId,
                                  validPhotos |-> validPhotos,
                                  results |-> << >>, calls |-> << >>,
                                  speciesGroups |-> << >>, sent |-> 0]
                  /\ ret' = NoRet
  /\ UNCHANGED <<now, limiterVars, collectorVars, cacheVars, classifier,
                 offerVars, userImageCache, detailTaps, imagesSent>>

(* The entry pushed to results for one photo: the try block's two branches  *)
(* and the catch block                                                      *)
resultOf(photo, outcome) ==
  IF outcome.kind = "identified"
    THEN [index |-> photo.index, success |-> TRUE,
          data |-> [identified |-> TRUE,
                    scientificName |-> outcome.scientificName,
                    similarSpeciesRuledOut |-> outcome.similar],
          buffer |-> photo.buffer]
    ELSE [index |-> photo.index, success |-> FALSE,
          reason |-> IF outcome.kind = "quality"
                       THEN "poor_quality"
                       ELSE "error.message"]

(* A loop that is left through the catch block *)
afterPhotoStoppingOnThrow(run, photo, outcome) ==
  [run EXCEPT
     !.results = Append(@, resultOf(photo, outcome)),
     !.calls = Append(@, [index |-> photo.index, outcome |-> outcome]),
     !.at = IF Len(run.results) + 1 = Len(run.validPhotos)
               \/ outcome.kind = "thrown"
              THEN "grouping"
              ELSE "classifying"]

(* One turn of the for loop over validPhotos: identifyAnimal is called with *)
(* the photo's buffer and the photo's result is pushed; calls is the        *)
(* history of the identifyAnimal calls of the run                           *)
afterPhoto(run, photo, outcome) ==
  [run EXCEPT
     !.results = Append(@, resultOf(photo, outcome)),
     !.calls = Append(@, [index |-> photo.index, outcome |-> outcome]),
     !.at = IF Len(run.results) + 1 = Len(run.validPhotos)
              THEN "grouping"
              ELSE "classifying"]

ClassifyNext(outcome) ==
  /\ batchRun.at = "classifying"
  /\ LET photo == batchRun.validPhotos[Len(batchRun.results) + 1]
     IN batchRun' = afterPhoto(batchRun, photo, outcome)
  /\ IF outcome.kind = "identified"
       THEN usage' = consume(usage, HandlerChat, BatchUser, now,
                             hostUtcOffset).usage
       ELSE UNCHANGED usage
  /\ ret' = NoRet
  /\ UNCHANGED <<now, hostUtcOffset, delivered, pc, rmVars, collectorVars,
                 cacheVars, classifier, offerVars, userImageCache, detailTaps,
                 imagesSent>>

(* speciesGroups is a Map in insertion order: the sequence of its entries *)
GroupIndex(speciesGroups, species) ==
  {k \in 1..Len(speciesGroups) : speciesGroups[k].species = species}

(* A grouping that puts the newest buffer of a species first *)
addToGroupsNewestFirst(speciesGroups, result) ==
  LET species == result.data.scientificName
      at == GroupIndex(speciesGroups, species)
  IN IF at = {}
       THEN Append(speciesGroups,
                   [species |-> species, data |-> result.data, count |-> 1,
                    buffers |-> <<result.buffer>>])
       ELSE LET k == CHOOSE k \in at : TRUE
            IN [speciesGroups EXCEPT
                  ![k].count = @ + 1,
                  ![k].buffers = <<result.buffer>> \o @]

(* The body of "for (const result of results)" for a success *)
addToGroups(speciesGroups, result) ==
  LET species == result.data.scientificName
      at == GroupIndex(speciesGroups, species)
  IN IF at = {}
       THEN Append(speciesGroups,
                   [species |-> species, data |-> result.data, count |-> 1,
                    buffers |-> <<result.buffer>>])
       ELSE LET k == CHOOSE k \in at : TRUE
            IN [speciesGroups EXCEPT
                  ![k].count = @ + 1,
                  ![k].buffers = Append(@, result.buffer)]

RECURSIVE groupBySpecies(_, _)
groupBySpecies(results, speciesGroups) ==
  IF results = << >>
    THEN speciesGroups
    ELSE groupBySpecies(Tail(results),
                        IF Head(results).success
                          THEN addToGroups(speciesGroups, Head(results))
                          ELSE speciesGroups)

(* The results grouped by species, after the loop *)
GroupResults ==
  /\ batchRun.at = "grouping"
  /\ batchRun' = [batchRun EXCEPT
                    !.speciesGroups = groupBySpecies(batchRun.results, << >>),
                    !.at = "sending"]
  /\ ret' = NoRet
  /\ UNCHANGED <<now, limiterVars, rmVars, collectorVars, cacheVars,
                 classifier, offerVars, userImageCache, detailTaps,
                 imagesSent>>

(* The detailed result of the next species: d = group.data with the first   *)
(* buffer of the group as d._originalImageBuffer, identificationCache.set,  *)
(* then the reference photo and the message with its buttons.  The taxon    *)
(* name is read only when the lookup found a photo, and Telegram accepts    *)
(* the messages.                                                            *)
resultOfGroup(group) ==
  [_originalImageBuffer |-> group.buffers[1]] @@ group.data

SendSpeciesResult(lookup) ==
  /\ batchRun.at = "sending"
  /\ batchRun.sent < Len(batchRun.speciesGroups)
  /\ LET group == batchRun.speciesGroups[batchRun.sent + 1]
         d == resultOfGroup(group)
         cacheKey == makeKey(HandlerChat, d.scientificName)
         iNatPhoto == getSpeciesPhoto(lookup)
         key == _getKeyAndLimit(HandlerChat, BatchUser).key
         sentBefore == IF key \in DOMAIN delivered
                            /\ delivered[key].week = WeekOf(now)
                         THEN delivered[key].count
                         ELSE 0
     IN /\ cache' = set(cache, cacheKey, d, now)
        /\ written' = MapPut(written, cacheKey,
                             [value |-> d, timestamp |-> now,
                              chatId |-> HandlerChat])
        /\ valSeq' = valSeq + 1
        /\ delivered' = MapPut(delivered, key,
                               [week |-> WeekOf(now),
                                count |-> sentBefore + 1])
        /\ ret' = [op |-> "sendSpecies", species |-> d.scientificName,
                   count |-> group.count,
                   message |-> IF iNatPhoto.found
                                 THEN "photoWithButtons"
                                 ELSE "textWithButtons"]
  /\ batchRun' = [batchRun EXCEPT !.sent = @ + 1]
  /\ UNCHANGED <<now, hostUtcOffset, usage, pc, rmVars, collectorVars,
                 classifier, offerVars, userImageCache, detailTaps,
                 imagesSent>>

(* The report of the failures, and requestManager.completeAndRemove *)
CompleteBatch ==
  /\ batchRun.at = "sending"
  /\ batchRun.sent = Len(batchRun.speciesGroups)
  /\ rm' = completeAndRemove(rm, batchRun.requestId)
  /\ batchRun' = [batchRun EXCEPT !.at = "done"]
  /\ ret' = [op |-> "processMediaGroupPhotos",
             reply |-> IF \E k \in 1..Len(batchRun.results) :
                             ~batchRun.results[k].success
                         THEN "failures"
                         ELSE "none"]
  /\ UNCHANGED <<now, idSeq, limiterVars, collectorVars, cacheVars,
                 classifier, offerVars, userImageCache, detailTaps,
                 imagesSent>>

----------------------------------------------------------------------------
(* RESULT BUTTONS: More Details and Similar Species *)

DetailHandlers == {1, 2}
TapKinds == {"details", "similar"}
IdleDetail == [at |-> "idle"]

(* `${scientificName}_${tappedByUserId}` *)
imageKeyOf(scientificName, userId) ==
  scientificName \o <<"_">> \o Decimal(userId)

(* handleCallbackQuery for details_ and similar_ up to its first await: the *)
(* result is read from identificationCache, the delivery marker from        *)
(* userImageCache, and the image is handed to sharp and sendPhoto when the  *)
(* marker is absent; otherwise the text alone is sent.  get leaves a key in *)
(* the cache exactly when it returns its value.                             *)
ResultTapReceived(h, kind, scientificName, userId) ==
  /\ detailTaps[h].at = "idle"
  /\ LET cacheKey == makeKey(HandlerChat, scientificName)
         lastResult == get(cache, cacheKey, now)
         imageKey == imageKeyOf(scientificName, userId)
         alreadyReceivedImage == get(userImageCache, imageKey, now)
     IN /\ cache' = lastResult.cache
        /\ IF cacheKey \notin DOMAIN lastResult.cache
             THEN /\ ret' = [op |-> "tap", kind |-> kind,
                             answer |-> "expired"]
                  /\ UNCHANGED <<userImageCache, detailTaps>>
             ELSE IF kind = "similar"
                     /\ Len(lastResult.value.similarSpeciesRuledOut) = 0
               THEN /\ ret' = [op |-> "tap", kind |-> kind,
                               answer |-> "noSimilar"]
                    /\ UNCHANGED <<userImageCache, detailTaps>>
               ELSE /\ userImageCache' = alreadyReceivedImage.cache
                    /\ IF imageKey \notin DOMAIN alreadyReceivedImage.cache
                         THEN /\ detailTaps' =
                                   [detailTaps EXCEPT ![h] =
                                      [at |-> "sendingPhoto", kind |-> kind,
                                       imageKey |-> imageKey,
                                       userId |-> userId,
                                       scientificName |-> scientificName,
                                       hdBuffer |-> lastResult.value
                                                      ._originalImageBuffer]]
                              /\ ret' = NoRet
                         ELSE /\ ret' = [op |-> "tap", kind |-> kind,
                                         answer |-> "sentToPM"]
                              /\ UNCHANGED detailTaps
  /\ UNCHANGED <<now, limiterVars, rmVars, collectorVars, written, valSeq,
                 classifier, offerVars, batchRun, imagesSent>>

(* ... and after sendPhoto: userImageCache.set(imageKey, true) and the      *)
(* text, or the alert of the catch block when the user cannot be written to *)
PhotoSent(h, canPM) ==
  /\ detailTaps[h].at = "sendingPhoto"
  /\ IF canPM
       THEN /\ imagesSent' = Append(imagesSent,
                                    [userId |-> detailTaps[h].userId,
                                     scientificName |->
                                       detailTaps[h].scientificName,
                                     image |-> detailTaps[h].hdBuffer,
                                     at |-> now])
            /\ userImageCache' = set(userImageCache, detailTaps[h].imageKey,
                                     TRUE, now)
            /\ ret' = [op |-> "tap", kind |-> detailTaps[h].kind,
                       answer |-> "sentToPM"]
       ELSE /\ ret' = [op |-> "tap", kind |-> detailTaps[h].kind,
                       answer |-> "startChat"]
            /\ UNCHANGED <<imagesSent, userImageCache>>
  /\ detailTaps' = [detailTaps EXCEPT ![h] = IdleDetail]
  /\ UNCHANGED <<now, limiterVars, rmVars, collectorVars, cacheVars,
                 classifier, offerVars, batchRun>>

(* Passage of time while results are shown: half a TTL a step, until the    *)
(* entries written at the start have expired                                *)
DetailTick ==
  /\ now <= ttl
  /\ now' = now + ttl \div 2 + 1
  /\ ret' = NoRet
  /\ UNCHANGED <<limiterVars, rmVars, collectorVars, cacheVars, serviceVars>>

InitComponents ==
  /\ ret = NoRet
  /\ InitLimiter
  /\ InitRM
  /\ InitCollector
  /\ InitCache
  /\ InitClassifier
  /\ InitOffers
  /\ InitFollow

(* The bot started at the time origin, on a host running in UTC *)
InitAtZero == now = 0 /\ hostUtcOffset = 0 /\ InitComponents

(* keys reached through one private chat and one group chat *)
LimiterContexts == {<<1, 1>>, <<-1, 1>>, <<-1, 2>>}

NextLimiter ==
  \/ \E cu \in LimiterContexts : CheckLimit(cu[1], cu[2])
  \/ \E cu \in LimiterContexts : Consume(cu[1], cu[2])
  \/ CheckResets
  \/ LimiterTick

InitAtLimiterStart == now = LimiterStart /\ InitComponents

SpecLimiter == InitAtLimiterStart /\ [][NextLimiter]_vars

(* One user in a private chat and in two groups, within one week; the      *)
(* second group identifies a few photos only                                *)
KeyContexts == {<<1, 1>>, <<-1, 1>>, <<-2, 1>>}
SecondGroup == -2
MaxSecondGroupUses == 3

NextLimiterKeys ==
  \/ \E cu \in KeyContexts : CheckLimit(cu[1], cu[2])
  \/ \E cu \in KeyContexts :
       /\ cu[1] = SecondGroup
            => (<<"group", SecondGroup>> \in DOMAIN usage
                  => usage[<<"group", SecondGroup>>].count < MaxSecondGroupUses)
       /\ Consume(cu[1], cu[2])

InitOnTuesday == now = DayMs /\ hostUtcOffset = 0 /\ InitComponents

SpecLimiterKeys == InitOnTuesday /\ [][NextLimiterKeys]_vars

(* The reset computation alone, on a host in UTC or in Singapore *)
InitAtMonday == now = 0 /\ InitComponents

NextReset ==
  \/ GetNextMondayReset
  \/ ResetTick

SpecReset == InitAtMonday /\ [][NextReset]_vars

(* One identifyAnimal call, whatever the classifier service answers *)
NextClassifier ==
  \/ IdentifyAnimal
  \/ \E response \in Responses : ClassifierResponds(response)
  \/ RetryWaitElapsed

SpecClassifier == InitAtZero /\ [][NextClassifier]_vars

(* Photos of two members of one group, on a host running in UTC *)
NextHandlers ==
  \/ \E h \in Handlers : YesPressed(h)
  \/ \E h \in Handlers : AskLocation(h)
  \/ \E h \in Handlers : LocationText(h)
  \/ \E h \in Handlers : DeliverResult(h)
  \/ \E h \in Handlers : ConsumeAndComplete(h)
  \/ HandlerTick

InitAtHandlerStart ==
  now = HandlerStart /\ hostUtcOffset = 0 /\ InitComponents

SpecHandlers == InitAtHandlerStart /\ [][NextHandlers]_vars

(* The photos of one member of the group, each run ending in a result or   *)
(* in a failure message                                                     *)
SoloHandlers == {1}

NextPipeline ==
  \/ \E h \in SoloHandlers, kind \in PhotoKinds : PhotoShared(h, kind)
  \/ \E h \in SoloHandlers : IdentifyCommand(h)
  \/ \E h \in SoloHandlers : YesPressed(h)
  \/ \E h \in SoloHandlers : AskLocation(h)
  \/ \E h \in SoloHandlers : LocationText(h)
  \/ \E h \in SoloHandlers, lookup \in INaturalistLookups :
       SendResult(h, lookup)
  \/ \E h \in SoloHandlers : ReportFailure(h)
  \/ \E h \in SoloHandlers : ConsumeAndComplete(h)

SpecPipeline == InitAtHandlerStart /\ [][NextPipeline]_vars

(* Photos of one member of the group taken with the Yes button: the         *)
(* classifier identifies the animal or not, the result is cached, the       *)
(* reference photo is found or not, and the run is completed                *)
NextCacheWrite ==
  \/ \E h \in SoloHandlers : YesPressed(h)
  \/ \E h \in SoloHandlers, n \in ScientificNames : CacheResult(h, n)
  \/ \E h \in SoloHandlers, lookup \in INaturalistLookups :
       SendIdentified(h, lookup)
  \/ \E h \in SoloHandlers : ReportFailure(h)
  \/ \E h \in SoloHandlers : ConsumeAndComplete(h)

SpecCacheWrite == InitAtHandlerStart /\ [][NextCacheWrite]_vars

(* One album sent to the group chat, its photos classified one after the   *)
(* other and the results sent species by species                            *)
NextBatch ==
  \/ \E downloads \in BatchDownloads : ProcessMediaGroup(downloads)
  \/ \E outcome \in ClassifierOutcomes : ClassifyNext(outcome)
  \/ GroupResults
  \/ \E lookup \in INaturalistLookups : SendSpeciesResult(lookup)
  \/ CompleteBatch

SpecBatch == InitAtZero /\ [][NextBatch]_vars

(* The results of an album of two photos, and the taps of one member on    *)
(* their buttons, handled by two runs of the handler                        *)
NextDetails ==
  \/ ProcessMediaGroup(<<TRUE, TRUE>>)
  \/ \E outcome \in IdentifiedOutcomes : ClassifyNext(outcome)
  \/ GroupResults
  \/ \E lookup \in INaturalistLookups : SendSpeciesResult(lookup)
  \/ CompleteBatch
  \/ \E h \in DetailHandlers, kind \in TapKinds, n \in BatchSpecies :
       ResultTapReceived(h, kind, n, BatchUser)
  \/ \E h \in DetailHandlers, canPM \in BOOLEAN : PhotoSent(h, canPM)
  \/ DetailTick

SpecDetails == InitAtZero /\ [][NextDetails]_vars

(* Follow-up messages of one user in one group chat, handled by two        *)
(* invocations that the runner lets overlap                                 *)
MaxResumeRequests == 2

NextResume ==
  \/ idSeq < MaxResumeRequests /\ IdentifyCommand(ResumeUser)
  \/ \E h \in Handlers : FollowUpReceived(h)
  \/ \E h \in Handlers : FollowUpResumes(h)
  \/ \E h \in Handlers : DeliverResult(h)
  \/ \E h \in Handlers : ReportFailure(h)
  \/ \E h \in Handlers : ConsumeAndComplete(h)

SpecResume == InitAtHandlerStart /\ [][NextResume]_vars

(* user 1 in a private chat and in a group *)
RMContexts == {<<1, 1>>, <<-1, 1>>}

NextRM ==
  \/ \E cu \in RMContexts :
       now + pendingTimeout < RMEnd /\ CreateRequest(cu[1], cu[2], MaxRequests)
  \/ \E id \in GeneratedIds : BeginProcessing(id)
  \/ \E id \in GeneratedIds : AwaitLocation(id)
  \/ \E id \in GeneratedIds : CompleteAndRemove(id)
  \/ \E id \in GeneratedIds : FailAndRemove(id)
  \/ \E u \in UserIds : ClearUserRequests(u)
  \/ Cleanup
  \/ \E cu \in RMContexts : FindPendingRequest(cu[2], cu[1])
  \/ RMTick

SpecRM == InitAtZero /\ [][NextRM]_vars

(* The sweep: requests are created, are taken into processing or left       *)
(* waiting for a location, and a pipeline run may finish or never do so.    *)
(* Time passes and the sweep's interval timer keeps firing.                 *)
MaxSweepRequests == 1

NextRMSweep ==
  \/ \E cu \in RMContexts :
       /\ now + pendingTimeout < RMEnd
       /\ CreateRequest(cu[1], cu[2], MaxSweepRequests)
  \/ \E id \in GeneratedIds : BeginProcessing(id)
  \/ \E id \in GeneratedIds : AwaitLocation(id)
  \/ \E id \in GeneratedIds : CompleteAndRemove(id)
  \/ Cleanup
  \/ RMTick

SpecRMSweep ==
  /\ InitAtZero
  /\ [][NextRMSweep]_vars
  /\ WF_vars(RMTick) /\ WF_vars(Cleanup)

(* The per-user ceiling: both users, more requests than the ceiling, at one *)
(* instant.                                                                 *)
MaxEvictRequests == 6
EvictContexts == {<<1, 1>>, <<-1, 1>>, <<-1, 2>>}

NextRMEvict ==
  \/ \E cu \in EvictContexts : CreateRequest(cu[1], cu[2], MaxEvictRequests)
  \/ \E id \in GeneratedIds : CompleteAndRemove(id)

SpecRMEvict == InitAtZero /\ [][NextRMEvict]_vars

(* Request ids as the generator makes them: createRequest calls of two     *)
(* users within one millisecond and in successive milliseconds             *)
NextRMIds ==
  \/ \E cu \in EvictContexts, bytes \in RandomBytes :
       CreateRequestDrawn(cu[1], cu[2], bytes)
  \/ \E id \in DOMAIN rm.requests : CompleteAndRemove(id)
  \/ IdTick

SpecRMIds == InitAtZero /\ [][NextRMIds]_vars

(* Photos and albums offered in a group and a private chat, their buttons   *)
(* tapped by the members while runs of the button handler overlap, and      *)
(* offers expiring                                                          *)
MaxOffers == 1

NextOffers ==
  \/ \E cu \in OfferContexts : OfferPhoto(cu[1], cu[2], MaxOffers)
  \/ \E cu \in OfferContexts : OfferGroup(cu[1], cu[2], MaxOffers)
  \/ \E h \in TapHandlers, key \in DOMAIN prompts, decision \in Decisions,
        userId \in UserIds : TapReceived(h, key, decision, userId)
  \/ \E h \in TapHandlers : PromptDeleted(h)
  \/ \E h \in TapHandlers : TapDecided(h)
  \/ OfferExpires
  \/ OfferTick

SpecOffers == InitAtZero /\ [][NextOffers]_vars

(* The request manager under the handlers that create and end requests:    *)
(* /identify commands of one member of a group; a photo offered in the      *)
(* group or in the private chat and taken with its Yes button; runs that    *)
(* wait for a location or finish; /clear; the sweep before and after the    *)
(* timeouts.                                                                *)
MaxTrackedRequests == 2
TrackedUser == 1

NextRMTracked ==
  \/ CreateRequest(HandlerChat, TrackedUser, MaxTrackedRequests)
  \/ \E cu \in OfferContexts :
       idSeq < MaxTrackedRequests /\ OfferPhoto(cu[1], cu[2], MaxOffers)
  \/ \E key \in DOMAIN prompts :
       TapReceived(TrackedUser, key, "yes", TrackedUser)
  \/ PromptDeleted(TrackedUser)
  \/ TapDecided(TrackedUser)
  \/ \E id \in DOMAIN rm.requests : AwaitLocation(id)
  \/ \E id \in GeneratedIds : CompleteAndRemove(id)
  \/ ClearUserRequests(TrackedUser)
  \/ Cleanup
  \/ OfferTick

SpecRMTracked == InitAtZero /\ [][NextRMTracked]_vars

(* The statistics counters: one member's requests, more than the per-user   *)
(* ceiling, ended by completion, failure, /clear, eviction and the sweep    *)
MaxCountedRequests == 6

NextRMStats ==
  \/ CreateRequest(HandlerChat, TrackedUser, MaxCountedRequests)
  \/ \E id \in GeneratedIds : BeginProcessing(id)
  \/ \E id \in GeneratedIds : CompleteAndRemove(id)
  \/ \E id \in GeneratedIds : FailAndRemove(id)
  \/ \E id \in GeneratedIds : SinglePhotoFails(id)
  \/ ClearUserRequests(TrackedUser)
  \/ Cleanup
  \/ OfferTick

SpecRMStats == InitAtZero /\ [][NextRMStats]_vars

(* The /clear command: two users with requests in a group and a private    *)
(* chat, waiting for a location or being processed                          *)
MaxClearRequests == 3

NextRMClear ==
  \/ \E cu \in EvictContexts : CreateRequest(cu[1], cu[2], MaxClearRequests)
  \/ \E id \in GeneratedIds : BeginProcessing(id)
  \/ \E id \in GeneratedIds : AwaitLocation(id)
  \/ \E u \in UserIds : ClearUserRequests(u)

SpecRMClear == InitAtZero /\ [][NextRMClear]_vars

(* Albums of one user in a group chat and in that user's private chat *)
CollectorContexts == {<<-1, 1>>, <<1, 1>>}

NextCollector ==
  \/ \E g \in MediaGroupIds, cu \in CollectorContexts :
       AddPhoto(g, cu[1], cu[2])
  \/ \E g \in MediaGroupIds : TimerFire(g)
  \/ CollectorTick

SpecCollector == InitAtZero /\ [][NextCollector]_vars

NextCache ==
  \/ \E c \in CacheChatIds, n \in ScientificNames : CacheSet(c, n)
  \/ \E c \in CacheChatIds, n \in ScientificNames : CacheGet(c, n)
  \/ \E c \in CacheChatIds : CacheClearChat(c)
  \/ CacheCleanup
  \/ CacheTick

SpecCache == InitAtZero /\ [][NextCache]_vars

----------------------------------------------------------------------------
(* CLAIMS *)

(* The limit that belongs to a key, by the key's category *)
LimitOfKey(key) ==
  IF key[1] = "user" THEN maxPmRequestsPerWeek ELSE maxGroupRequestsPerWeek

(* C1: for every quota key the stored count never exceeds the key's limit   *)
(* (50 for a group key, 25 for a private-user key), and a consume issued    *)
(* while the count equals the limit and the reset time has not passed       *)
(* returns success:false and leaves the count unchanged.                    *)
C1_CountWithinLimit ==
  \A k \in DOMAIN usage : usage[k].count >= 0 /\ usage[k].count <= LimitOfKey(k)

C1_ConsumeAtLimitFails ==
  \A cu \in LimiterContexts :
    LET k == _getKeyAndLimit(cu[1], cu[2]).key
    IN (/\ Consume(cu[1], cu[2])
        /\ k \in DOMAIN usage
        /\ usage[k].count = LimitOfKey(k)
        /\ now < usage[k].resetAt)
       => (/\ ret'.success = FALSE
           /\ usage'[k].count = usage[k].count)

C1_QuotaMonotonicity ==
  [](C1_CountWithinLimit) /\ [][C1_ConsumeAtLimitFails]_vars

(* C1 witness: a consume was refused with the key at its limit *)
C1_Witness ==
  /\ ret.op = "consume"
  /\ ret.success = FALSE
  /\ usage[ret.key].count = LimitOfKey(ret.key)
  /\ ret.key = <<"user", 1>>

(* C2: within one weekly window the number of identification results       *)
(* delivered to a chat never exceeds the weekly limit of the chat's key,    *)
(* whatever the interleaving of the handlers.                               *)
C2_DeliveriesWithinLimit ==
  \A k \in DOMAIN delivered : delivered[k].count <= LimitOfKey(k)

(* C3: for every user and chat, findPendingRequest(user, chat) never        *)
(* returns a request whose chatId is another chat.                          *)
C3_ResumeScoping ==
  \A cu \in RMContexts :
    LET r == findPendingRequest(rm, cu[2], cu[1])
    IN r # Null => rm.requests[r].chatId = cu[1]

(* C3 witness: findPendingRequest returned a request of the chat asked for  *)
(* while the same user has a later pending request with a buffer elsewhere  *)
C3_Witness ==
  /\ ret.op = "findPendingRequest"
  /\ ret.requestId # Null
  /\ \E id \in DOMAIN rm.requests :
       /\ rm.requests[id].userId = ret.userId
       /\ rm.requests[id].chatId # ret.chatId
       /\ rm.requests[id].status = "pending"
       /\ rm.requests[id].buffer
       /\ rm.requests[id].createdAt > rm.requests[ret.requestId].createdAt

LiveOf(S, userId) ==
  {id \in DOMAIN S.requests : S.requests[id].userId = userId}

OldestOf(S, userId) ==
  CHOOSE id \in LiveOf(S, userId) : \A other \in LiveOf(S, userId) : id <= other

(* C4: createRequest for a user with maxRequestsPerUser (5) live requests   *)
(* removes exactly the earliest-created live request of that user and       *)
(* leaves every other request as it was; no user ever has more than 5 live  *)
(* requests.                                                                *)
C4_CeilingHolds ==
  \A u \in UserIds : Cardinality(LiveOf(rm, u)) <= maxRequestsPerUser

C4_EvictsOldest ==
  \A cu \in EvictContexts :
    (/\ CreateRequest(cu[1], cu[2], MaxEvictRequests)
     /\ Cardinality(LiveOf(rm, cu[2])) = maxRequestsPerUser)
    => (/\ DOMAIN rm'.requests =
             (DOMAIN rm.requests \ {OldestOf(rm, cu[2])}) \cup {idSeq'}
        /\ \A id \in DOMAIN rm.requests \ {OldestOf(rm, cu[2])} :
             rm'.requests[id] = rm.requests[id])

Indexed(S, requestId) ==
  \/ \E k \in DOMAIN S.userRequests : SetHas(S.userRequests[k], requestId)
  \/ \E k \in DOMAIN S.chatRequests : SetHas(S.chatRequests[k], requestId)

(* C5: after completeAndRemove(id) on a live request getRequest(id)         *)
(* returns absent, id is in neither index, and the completed counter has    *)
(* grown by exactly one.                                                    *)
C5_CompletedIsGone ==
  \A id \in GeneratedIds :
    (CompleteAndRemove(id) /\ id \in DOMAIN rm.requests)
    => (/\ getRequest(rm', id) = Null
        /\ ~Indexed(rm', id)
        /\ rm'.stats.completedRequests = rm.stats.completedRequests + 1)

C5_CompleteAndRemove == [][C5_CompletedIsGone]_vars

(* C5 witness: two live requests were completed and removed *)
C5_Witness ==
  /\ rm.stats.completedRequests = 2
  /\ rm.requests = EmptyMap

Absent(requestId) ==
  requestId \notin DOMAIN rm.requests /\ ~Indexed(rm, requestId)

(* C6: while time passes and the sweep keeps firing, every request that is  *)
(* created is eventually absent from the requests map and both indexes.     *)
C6_EventuallyAbsent ==
  \A id \in 1..MaxSweepRequests :
    (id \in DOMAIN rm.requests) ~> Absent(id)

(* C6 witness: the sweep itself removed a request that nothing else would   *)
(* have removed                                                             *)
C6_Witness ==
  /\ ret.op = "_cleanup"
  /\ ret.cleaned > 0
  /\ rm.stats.expiredRequests > 0
  /\ Absent(1)

(* The message ids of the photo events of one collection window of a media *)
(* group id, in the order of their addPhoto calls                           *)
WindowPhotos(mediaGroupId, window) ==
  SelectSeq([i \in 1..Len(arrivals) |-> i],
            LAMBDA i : /\ arrivals[i].mediaGroupId = mediaGroupId
                       /\ arrivals[i].window = window)

PhotosOfWindowOf(i) ==
  WindowPhotos(arrivals[i].mediaGroupId, arrivals[i].window)

(* C7: the batch yielded for a media group contains exactly the photos      *)
(* whose addPhoto calls came before the group's timer fired, each once, in  *)
(* the order of the calls.                                                  *)
C7_BatchCompleteness ==
  \A i \in 1..Len(promises) :
    promises[i].state = "batch" => promises[i].value = PhotosOfWindowOf(i)

(* C7 witness: a batch of three photos whose arrivals were interleaved with *)
(* a photo of the other album                                               *)
C7_Witness ==
  \E i \in 1..Len(promises) :
    promises[i].state = "batch" /\ promises[i].value = <<1, 3, 4>>

(* C8: only the addPhoto call that opened a collection window receives the  *)
(* batch, at the firing of the timer and not before the collection delay    *)
(* has elapsed; every other call resolves with null; after the timer fired  *)
(* the collector holds nothing for the group.                               *)
C8_OnlyOpenerWaits ==
  \A i \in 1..Len(promises) :
    IF i = PhotosOfWindowOf(i)[1]
      THEN /\ promises[i].state \in {"pending", "batch"}
           /\ promises[i].state = "pending"
                => arrivals[i].mediaGroupId \in DOMAIN groups
      ELSE promises[i].state = "null"

C8_DeliveredByTimer ==
  /\ \A i \in 1..Len(promises) :
       (promises[i].state = "pending" /\ promises'[i].state # "pending")
       => /\ TimerFire(arrivals[i].mediaGroupId)
          /\ now >= arrivals[i].at + collectTimeout
          /\ promises'[i].state = "batch"
  /\ \A g \in MediaGroupIds :
       TimerFire(g)
       => /\ g \notin DOMAIN groups'
          /\ Cardinality({i \in 1..Len(promises) :
                            promises'[i] # promises[i]}) = 1

C8_SingleDelivery == [](C8_OnlyOpenerWaits) /\ [][C8_DeliveredByTimer]_vars

(* C8 witness: the opener got the batch, a later call of the same album got *)
(* null, and the collector no longer knows the album                        *)
C8_Witness ==
  \E i, j \in 1..Len(promises) :
    /\ promises[i].state = "batch"
    /\ promises[j].state = "null"
    /\ promises[i].value = <<i, j>>
    /\ arrivals[i].mediaGroupId \notin DOMAIN groups

(* C9: no photo of one media group id appears in the batch of another, and *)
(* an addPhoto call or a timer firing of one id leaves the other id's      *)
(* photos, timer and promises as they were.                                 *)
C9_NoForeignPhotos ==
  /\ \A i \in 1..Len(promises) :
       \A k \in 1..Len(promises[i].value) :
         arrivals[promises[i].value[k]].mediaGroupId = arrivals[i].mediaGroupId
  /\ \A g \in DOMAIN groups :
       \A k \in 1..Len(groups[g].photos) :
         arrivals[groups[g].photos[k]].mediaGroupId = g

C9_OtherGroupUntouched ==
  \A g \in MediaGroupIds, h \in MediaGroupIds :
    (/\ g # h
     /\ \/ TimerFire(g)
        \/ \E cu \in CollectorContexts : AddPhoto(g, cu[1], cu[2]))
    => /\ h \in DOMAIN groups
            => (h \in DOMAIN groups' /\ groups'[h] = groups[h])
       /\ \A i \in 1..Len(promises) :
            arrivals[i].mediaGroupId = h => promises'[i] = promises[i]

C9_GroupIsolation == [](C9_NoForeignPhotos) /\ [][C9_OtherGroupUntouched]_vars

(* C9 witness: two albums whose photos alternated; each opener got its own *)
(* two photos                                                               *)
C9_Witness ==
  /\ Len(promises) = 4
  /\ promises[1] = BatchPromise(<<1, 3>>)
  /\ promises[2] = BatchPromise(<<2, 4>>)
  /\ arrivals[1].mediaGroupId # arrivals[2].mediaGroupId

(* C10: get(key) returns the value of the latest set(key) at every time     *)
(* before that set's time plus the TTL, and returns null at every time      *)
(* after it, the entry being gone from the map once such a get returns; a   *)
(* key that was never set, or whose chat was cleared since, reads as null.  *)
C10_GetWithinTtl ==
  \A c \in CacheChatIds, n \in ScientificNames :
    LET key == makeKey(c, n)
    IN CacheGet(c, n)
       => IF key \in DOMAIN written
            THEN /\ now < written[key].timestamp + ttl
                      => ret'.value = written[key].value
                 /\ now > written[key].timestamp + ttl
                      => (ret'.value = Null /\ key \notin DOMAIN cache')
            ELSE ret'.value = Null

C10_TtlBoundedRead == [][C10_GetWithinTtl]_vars

(* C10 witness: a get later than the TTL after the set found the entry,     *)
(* deleted it and returned null                                             *)
C10_Witness ==
  /\ ret.op = "get"
  /\ ret.evicted
  /\ ret.value = Null
  /\ ret.key \in DOMAIN written
  /\ now > written[ret.key].timestamp + ttl

(* C11: clearChat(chatId) removes every entry whose key makeKey built for   *)
(* that chat and leaves every entry of every other chat in place with its   *)
(* value and timestamp, also when one chat id is a decimal prefix of the    *)
(* other or is negative.                                                    *)
C11_ClearsOnlyThatChat ==
  \A c \in CacheChatIds :
    CacheClearChat(c)
    => \A other \in CacheChatIds, n \in ScientificNames :
         LET key == makeKey(other, n)
         IN key \in DOMAIN cache
            => IF other = c
                 THEN key \notin DOMAIN cache'
                 ELSE key \in DOMAIN cache' /\ cache'[key] = cache[key]

C11_CacheKeyIsolation == [][C11_ClearsOnlyThatChat]_vars

(* C11 witness: chat 1 was cleared of its entry while chats 12 and -1 kept  *)
(* theirs                                                                   *)
C11_Witness ==
  /\ ret.op = "clearChat"
  /\ ret.chatId = 1
  /\ ret.removed = 1
  /\ \A n \in ScientificNames :
       makeKey(12, n) \in DOMAIN cache /\ makeKey(-1, n) \in DOMAIN cache

(* The stored count of a key; a key without entry has consumed nothing *)
CountOf(us, key) == IF key \in DOMAIN us THEN us[key].count ELSE 0

(* C12: a single-photo pipeline run whose classifier outcome is a quality   *)
(* failure or no-detection, or whose classifier call fails altogether,      *)
(* leaves the quota count of the chat's key unchanged: the step that ends   *)
(* such a run does not change the count.                                    *)
C12_FailedRunKeepsCount ==
  \A h \in Handlers :
    LET key == _getKeyAndLimit(HandlerChat, h).key
    IN (ConsumeAndComplete(h) /\ pc[h].at = "reported")
       => CountOf(usage', key) = CountOf(usage, key)

C12_FailureConsumesNothing == [][C12_FailedRunKeepsCount]_vars

(* C13: the quota count of a chat's key increases by exactly one for each   *)
(* photo that is successfully identified, provided the count was below the  *)
(* limit when the unit is consumed, and by nothing else.                    *)
C13_SuccessAddsOne ==
  \A h \in Handlers :
    LET key == _getKeyAndLimit(HandlerChat, h).key
    IN (/\ ConsumeAndComplete(h)
        /\ pc[h].at = "delivered"
        /\ CountOf(_getUsage(usage, key, now, hostUtcOffset), key)
             < LimitOfKey(key))
       => CountOf(usage', key)
            = CountOf(_getUsage(usage, key, now, hostUtcOffset), key) + 1

C13_NothingElseAdds ==
  \A key \in DOMAIN usage' :
    CountOf(usage', key) > CountOf(usage, key)
      => \E h \in Handlers :
           /\ key = _getKeyAndLimit(HandlerChat, h).key
           /\ ConsumeAndComplete(h)
           /\ pc[h].at = "delivered"

C13_CountFollowsSuccess ==
  [][C13_SuccessAddsOne /\ C13_NothingElseAdds]_vars

(* The events that consult checkLimit before anything else: a photo or a   *)
(* media group shared, a Yes tap on an offered photo, an /identify reply   *)
AdmissionEvent(h) ==
  \/ \E kind \in PhotoKinds : PhotoShared(h, kind)
  \/ YesPressed(h)
  \/ IdentifyCommand(h)

Refused(h) ==
  ~checkLimit(usage, HandlerChat, h, now, hostUtcOffset).result.allowed

(* C14: when checkLimit reports allowed:false for the key of the chat, an   *)
(* incoming photo, a Yes tap on an offered photo, or an /identify reply     *)
(* produces no location prompt and no createRequest call: the set of live   *)
(* requests is the same before and after the event.                         *)
C14_RefusedEventCreatesNothing ==
  \A h \in Handlers :
    (Refused(h) /\ AdmissionEvent(h))
      => /\ rm' = rm
         /\ idSeq' = idSeq
         /\ ret'.reply # "locationPrompt"

C14_NoRequestWhenRefused == [][C14_RefusedEventCreatesNothing]_vars

(* C14 witness: an /identify reply was refused while a photo of the member  *)
(* was still awaiting its location                                          *)
C14_Witness ==
  /\ ret.op = "identify"
  /\ ret.allowed = FALSE
  /\ LiveOf(rm, 1) # {}

(* C15: whenever an identification is refused because the quota of the      *)
(* chat's key is exhausted, the user is sent a message saying that the      *)
(* limit is reached together with the reset time; no refused photo, single  *)
(* or media group, is dropped without any message.                          *)
C15_RefusalIsAnnounced ==
  (ret.op \in PhotoKinds \cup {"yes", "identify"} /\ ~ret.allowed)
    => (ret.reply = "limitReached" /\ ret.resetAt > now)

(* C16: along every execution the status history of a request is            *)
(* monotonic: once its status has become processing it never becomes        *)
(* pending again, so the only transitions are pending to processing and     *)
(* pending or processing to a terminal status.                              *)
TerminalStatuses == {"completed", "failed", "expired"}

C16_StatusStep ==
  \A id \in DOMAIN rm.requests \cap DOMAIN rm'.requests :
    LET before == rm.requests[id].status
        after == rm'.requests[id].status
    IN \/ after = before
       \/ before = "pending" /\ after = "processing"
       \/ before \in {"pending", "processing"} /\ after \in TerminalStatuses

C16_StatusMonotonic == [][C16_StatusStep]_vars

(* C17: for every value of the current time, the next-reset timestamp       *)
(* computed by the limiter is strictly later than the current time, is a    *)
(* Monday 00:00 in the configured timezone (UTC+8), and is the earliest     *)
(* such instant, so it is at most 7 days after the current time.            *)
C17_NextResetIsNextMonday ==
  ret.op = "_getNextMondayReset"
    => /\ ret.resetAt > ret.at
       /\ ret.resetAt % WeekMs = 0
       /\ ret.resetAt - ret.at <= WeekMs

(* The live requests of a user that are pending, have a populated buffer   *)
(* and belong to the chat                                                   *)
EligibleOf(S, userId, chatId) ==
  {id \in LiveOf(S, userId) :
     /\ S.requests[id].status = "pending"
     /\ S.requests[id].buffer
     /\ S.requests[id].chatId = chatId}

(* C18: findPendingRequest(user, chat) returns absent exactly when the      *)
(* user has no live request that is pending, has a populated buffer and     *)
(* belongs to that chat; otherwise it returns, among those eligible         *)
(* requests, the one that was created last (ids are in creation order).     *)
C18_LatestEligible ==
  \A cu \in RMContexts :
    LET r == findPendingRequest(rm, cu[2], cu[1])
        eligible == EligibleOf(rm, cu[2], cu[1])
    IN /\ (r = Null) <=> (eligible = {})
       /\ r # Null => (r \in eligible /\ \A other \in eligible : other <= r)

(* C19: createRequest never returns an id equal to the id of a request      *)
(* that is currently live, so creating a request never overwrites or        *)
(* aliases the entry of another live request, also when several requests    *)
(* are created within the same millisecond.                                 *)
C19_ReturnedIdNotLive ==
  ret.op = "createRequest" => ret.requestId \notin ret.live

(* C20: when the reference-photo lookup finds no photo for the final        *)
(* scientific name, the single-photo pipeline still delivers the            *)
(* identification result, as a text-only message with the follow-up         *)
(* buttons, and does not end in an error message.                           *)
C20_NoPhotoFallsBackToText ==
  (ret.op = "processIdentification" /\ ~ret.found)
    => ret.message = "textWithButtons"

(* The classifier calls made so far on one model *)
CallsOn(model) ==
  Cardinality({i \in 1..Len(classifier.log) : classifier.log[i].model = model})

(* C21: in identifyAnimal a classifier response that parses as a quality    *)
(* failure is returned after that single attempt with no further classifier *)
(* call, an attempt is repeated on the same model only after a quota or     *)
(* rate-limit shaped error, at most 3 attempts are made per model, and the  *)
(* call always ends with a result value after at most 6 classifier calls.   *)
C21_ParsedResponseIsReturned ==
  \A i \in 1..Len(classifier.log) :
    classifier.log[i].response.kind = "json"
      => /\ i = Len(classifier.log)
         /\ classifier.state = "returned"
         /\ classifier.result.success
         /\ classifier.result.data.identified
              = classifier.log[i].response.identified

C21_RepeatOnlyAfterQuotaError ==
  \A i \in 2..Len(classifier.log) :
    classifier.log[i].model = classifier.log[i - 1].model
      => /\ isQuotaError(thrownBy(classifier.log[i - 1].response))
         /\ classifier.log[i].attempt = classifier.log[i - 1].attempt + 1

C21_CallsBounded ==
  /\ \A model \in 1..Len(MODELS) : CallsOn(model) <= 3
  /\ classifier.calls = Len(classifier.log)
  /\ classifier.calls <= 6

C21_EndsWithResult ==
  /\ classifier.state = "returned"
       => /\ classifier.result # NoRet
          /\ ~ENABLED NextClassifier
  /\ classifier.state \in {"calling", "waiting"} => ENABLED NextClassifier

C21_ClassifierCallTerminates ==
  /\ C21_ParsedResponseIsReturned
  /\ C21_RepeatOnlyAfterQuotaError
  /\ C21_CallsBounded
  /\ C21_EndsWithResult

(* C21 witness: a call that returned its failure after six classifier calls *)
C21_Witness ==
  /\ classifier.state = "returned"
  /\ classifier.calls = 6
  /\ ~classifier.result.success

(* The handler invocations that are in a pipeline run on a request *)
RunningOn(requestId) ==
  {h \in Handlers : /\ pc[h].at \in {"located", "delivered", "reported"}
                    /\ pc[h].requestId = requestId}

(* C22: a pending request waiting for follow-up input is resumed by at      *)
(* most one handler invocation: of two follow-up events of the same user    *)
(* in the same chat handled concurrently, at most one starts a pipeline run *)
(* on that request, the request being pending when the run starts.          *)
C22_SingleResume ==
  /\ \A requestId \in GeneratedIds : Cardinality(RunningOn(requestId)) <= 1
  /\ ret.op = "resume" => ret.statusBefore = "pending"

(* C23: the completed counter counts only runs that delivered a successful  *)
(* identification: a run that ends in a quality failure, a no-detection or  *)
(* an error terminates its request as failed (failed counter incremented),  *)
(* never as completed.                                                      *)
C23_FailedRunEndsAsFailed ==
  \A h \in Handlers :
    (/\ ConsumeAndComplete(h)
     /\ pc[h].at = "reported"
     /\ getRequest(rm, pc[h].requestId) # Null)
      => /\ rm'.stats.completedRequests = rm.stats.completedRequests
         /\ rm'.stats.failedRequests = rm.stats.failedRequests + 1

C23_CompletedCountsSuccesses == [][C23_FailedRunEndsAsFailed]_vars

(* C24: the pending budget and the processing budget of a request are       *)
(* independent: the sweep expires a request in status processing only when  *)
(* it has been in processing for longer than the processing timeout, and    *)
(* time spent pending does not count.  So for a pending request whose       *)
(* processing begins now, a sweep at any time up to requestTimeout later    *)
(* leaves the request in place.                                             *)
C24_ProcessingBudgetFromStart ==
  \A id \in DOMAIN rm.requests :
    rm.requests[id].status = "pending"
      => LET started == updateStatus(rm, id, "processing")
         IN \A inProcessing \in {0, requestTimeout} :
              getRequest(_cleanup(started, now + inProcessing), id) # Null

(* The live requests in status pending *)
PendingIds == {id \in DOMAIN rm.requests : rm.requests[id].status = "pending"}

(* The times of a next sweep that matter for a request with the given      *)
(* budget: now, the last instant within the budget, the first beyond it    *)
SweepTimes(id, budget) ==
  {t \in {now, rm.requests[id].createdAt + budget,
          rm.requests[id].createdAt + budget + 1} : t >= now}

(* What the next sweep, at time t, does to a pending request with the      *)
(* given budget: nothing within the budget, expiry and removal beyond it   *)
SweepRespects(id, budget, t) ==
  LET swept == _cleanup(rm, t)
  IN IF t - rm.requests[id].createdAt <= budget
       THEN /\ getRequest(swept, id) # Null
            /\ swept.requests[id] = rm.requests[id]
       ELSE /\ getRequest(swept, id) = Null
            /\ ~Indexed(swept, id)
            /\ swept.stats.expiredRequests > rm.stats.expiredRequests

(* C25: the sweep never expires or removes a request in status pending      *)
(* whose age since creation is at most the pending timeout (5 minutes),     *)
(* and it expires and removes every pending request older than that at the  *)
(* first sweep that follows.                                                *)
C25_PendingBudget ==
  \A id \in PendingIds :
    \A t \in SweepTimes(id, pendingTimeout) :
      SweepRespects(id, pendingTimeout, t)

(* C25, amended: the budget of a pending request is the pending timeout     *)
(* (5 minutes) when it holds a buffer, that is when it waits for follow-up  *)
(* input, and the request timeout (3 minutes) when it holds none; the       *)
(* sweep leaves a pending request alone up to its budget and expires and    *)
(* removes it at the first sweep after.                                     *)
BudgetOf(id) ==
  IF rm.requests[id].buffer THEN pendingTimeout ELSE requestTimeout

C25_PendingBudgetByBuffer ==
  \A id \in PendingIds :
    \A t \in SweepTimes(id, BudgetOf(id)) :
      SweepRespects(id, BudgetOf(id), t)

(* C25 witness: a sweep has expired a request and has left in place a       *)
(* pending request with a buffer that is older than the request timeout     *)
C25_Witness ==
  /\ ret.op = "_cleanup"
  /\ ret.cleaned > 0
  /\ \E id \in PendingIds :
       /\ rm.requests[id].buffer
       /\ now - rm.requests[id].createdAt > requestTimeout

(* The reset time of a stored record has passed *)
ResetDue(us, key, t) == key \in DOMAIN us /\ t >= us[key].resetAt

(* C26: checkLimit never changes the count of any key except to set it to   *)
(* zero when the reset time of that key has passed; in particular a         *)
(* checkLimit call on a key whose reset is not due reports the used and     *)
(* remaining values that the last consume left.                             *)
C26_CheckLimitStep ==
  \A cu \in LimiterContexts :
    LET kl == _getKeyAndLimit(cu[1], cu[2])
    IN CheckLimit(cu[1], cu[2])
       => /\ DOMAIN usage \subseteq DOMAIN usage'
          /\ \A k \in DOMAIN usage' :
               \/ CountOf(usage', k) = CountOf(usage, k)
               \/ /\ k = kl.key
                  /\ ResetDue(usage, k, now)
                  /\ usage'[k].count = 0
          /\ ~ResetDue(usage, kl.key, now)
               => /\ ret'.used = CountOf(usage, kl.key)
                  /\ ret'.remaining = kl.limit - CountOf(usage, kl.key)

C26_CheckLimitReadsOnly == [][C26_CheckLimitStep]_vars

(* C26 witness: a checkLimit after a consume reported the count unchanged *)
C26_Witness ==
  /\ ret.op = "checkLimit"
  /\ ret.used > 0
  /\ ret.at < usage[ret.key].resetAt
  /\ usage[ret.key].count = ret.used

(* The record an operation in a chat is to use: the user's in a private    *)
(* chat (positive chat id), the chat's in a group                           *)
KeyOfChat(chatId, userId) ==
  IF chatId > 0 THEN <<"user", userId>> ELSE <<"group", chatId>>

(* C27: limiter operations for a private chat read and write only the       *)
(* record keyed by the user, with limit 25, and operations for a group      *)
(* chat only the record keyed by the chat, with limit 50; a consume on one  *)
(* key leaves the count and reset time of every other key unchanged.        *)
C27_OperationStep ==
  \A cu \in KeyContexts :
    LET key == KeyOfChat(cu[1], cu[2])
    IN (CheckLimit(cu[1], cu[2]) \/ Consume(cu[1], cu[2]))
       => /\ ret'.key = key
          /\ DOMAIN usage' = DOMAIN usage \cup {key}
          /\ \A k \in DOMAIN usage \ {key} : usage'[k] = usage[k]
          /\ ret'.op = "checkLimit"
               => /\ ret'.limit = (IF cu[1] > 0 THEN 25 ELSE 50)
                  /\ ret'.used = usage'[key].count
          /\ ret'.op = "consume"
               => /\ ret'.success = (CountOf(usage, key) < LimitOfKey(key))
                  /\ usage'[key].count
                       = CountOf(usage, key) + (IF ret'.success THEN 1 ELSE 0)

C27_KeyIsolation == [][C27_OperationStep]_vars

(* C27 witness: a consume in one group while the member's private record    *)
(* and the other group's record hold other counts                           *)
C27_Witness ==
  /\ ret.op = "consume"
  /\ ret.key = <<"group", -1>>
  /\ DOMAIN usage = {<<"user", 1>>, <<"group", -1>>, <<"group", -2>>}
  /\ usage[<<"group", -1>>].count = 2
  /\ usage[<<"user", 1>>].count = 1
  /\ usage[<<"group", -2>>].count = 3

(* An operation that reads the record of the key: the hourly check reads    *)
(* every record, checkLimit and consume the record of their chat            *)
ReadsRecord(key) ==
  \/ CheckResets
  \/ \E cu \in LimiterContexts :
       /\ KeyOfChat(cu[1], cu[2]) = key
       /\ CheckLimit(cu[1], cu[2]) \/ Consume(cu[1], cu[2])

(* C28: when a record is reset, lazily on access or by the hourly check,    *)
(* its count becomes 0 (before the access counts its own use) and its       *)
(* reset timestamp becomes exactly the previous reset timestamp plus one    *)
(* week.                                                                    *)
C28_ResetStep ==
  \A key \in DOMAIN usage :
    (ResetDue(usage, key, now) /\ ReadsRecord(key))
      => /\ usage'[key].resetAt = usage[key].resetAt + WeekMs
         /\ usage'[key].count \in {0, 1}

C28_ResetAdvancesOneWeek == [][C28_ResetStep]_vars

(* The ids an operation may name: those generated so far and one that was   *)
(* never created                                                            *)
NameableIds == 1..(idSeq + 1)
NotLive(S) == NameableIds \ DOMAIN S.requests
AllStatuses == {"pending", "processing"} \cup TerminalStatuses

(* _removeRequest and updateStatus applied to an id that is not live leave  *)
(* the manager as it is, and a second removal adds nothing to the first     *)
C29_NoOpOnAbsent ==
  /\ \A id \in NotLive(rm) :
       /\ _removeRequest(rm, id) = rm
       /\ \A status \in AllStatuses : updateStatus(rm, id, status) = rm
  /\ \A id \in NameableIds :
       _removeRequest(_removeRequest(rm, id), id) = _removeRequest(rm, id)

(* the handlers' calls on an id that is not live change nothing *)
C29_AbsentStep ==
  \A id \in GeneratedIds \ DOMAIN rm.requests :
    (BeginProcessing(id) \/ CompleteAndRemove(id) \/ FailAndRemove(id))
      => rm' = rm

(* C29: removing a request id that is not live (already removed or never    *)
(* created) and calling updateStatus on such an id change nothing in the    *)
(* requests map, the two indexes or the statistics counters; removing the   *)
(* same id twice has the same effect as removing it once.                   *)
C29_RemovalIdempotent == []C29_NoOpOnAbsent /\ [][C29_AbsentStep]_vars

(* C29 witness: one request was completed and removed, another is live and  *)
(* counted, and the removed id can be named again                           *)
C29_Witness ==
  /\ idSeq = 2
  /\ DOMAIN rm.requests = {2}
  /\ 1 \in NotLive(rm)
  /\ rm.stats.completedRequests = 1
  /\ rm.stats.totalRequests = 2

(* The ids an index holds under any of its keys *)
IndexedIds(ix) == UNION {{ix[k][i] : i \in 1..Len(ix[k])} : k \in DOMAIN ix}

(* C30: after clearUserRequests(u) user u has no live request in any chat,  *)
(* the expired counter has increased by exactly the number of requests u    *)
(* had live, and every request of every other user is still live with       *)
(* unchanged status and fields.                                             *)
C30_ClearStep ==
  \A u \in UserIds :
    ClearUserRequests(u)
      => /\ LiveOf(rm', u) = {}
         /\ u \notin DOMAIN rm'.userRequests
         /\ IndexedIds(rm'.chatRequests) \cap LiveOf(rm, u) = {}
         /\ rm'.stats.expiredRequests
              = rm.stats.expiredRequests + Cardinality(LiveOf(rm, u))
         /\ \A id \in DOMAIN rm.requests \ LiveOf(rm, u) :
              /\ id \in DOMAIN rm'.requests
              /\ rm'.requests[id] = rm.requests[id]
              /\ id \in IndexedIds(rm'.userRequests)
              /\ id \in IndexedIds(rm'.chatRequests)

C30_ClearUserRequests == [][C30_ClearStep]_vars

(* C30 witness: the two requests of user 1, one in each chat, were cleared  *)
(* while the request of user 2 in the group stays, being processed          *)
C30_Witness ==
  /\ rm.stats.expiredRequests = 2
  /\ rm.stats.totalRequests = 3
  /\ LiveOf(rm, 1) = {}
  /\ \E id \in LiveOf(rm, 2) :
       /\ rm.requests[id].chatId = -1
       /\ rm.requests[id].status = "processing"

(* C39: immediately after any limiter operation on a key its stored reset   *)
(* time is strictly later than the current time, and the count of a record  *)
(* whose reset time lies ahead is never zeroed, whatever the offset between *)
(* the host's clock zone and UTC+8.                                         *)
C39_ResetAheadStep ==
  \A key \in DOMAIN usage' :
    ReadsRecord(key)
      => /\ usage'[key].resetAt > now
         /\ (key \in DOMAIN usage /\ ~ResetDue(usage, key, now))
              => usage'[key].count >= usage[key].count

C39_ResetTimeAhead == [][C39_ResetAheadStep]_vars

(* The offers waiting under any key *)
OfferedKeys == DOMAIN pendingPhotos \cup DOMAIN pendingPhotoGroups

(* A tap's decision creates a request only from an offer that is waiting,   *)
(* and takes the offer away in the same step                                *)
C38_TapStep ==
  \A h \in TapHandlers :
    TapDecided(h)
      => LET key == taps[h].key
         IN /\ Cardinality(DOMAIN rm'.requests \ DOMAIN rm.requests) <= 1
            /\ rm' # rm => /\ taps[h].decision = "yes"
                           /\ key \in OfferedKeys
                           /\ ret'.requestId \in DOMAIN rm'.requests
            /\ key \notin OfferedKeys => rm' = rm /\ ret'.requestId = Null
            /\ (rm' # rm \/ taps[h].decision = "no") => key \notin OfferedKeys'

(* The photo message an offer is about: the message of a single photo, the  *)
(* first message of an album                                                *)
OfferOf(photos, photoGroups, key) ==
  IF key \in DOMAIN photos THEN photos[key].messageId
  ELSE IF key \in DOMAIN photoGroups THEN photoGroups[key].photos.first
  ELSE Null

(* An offer that was taken, declined or expired never waits again: an       *)
(* entry that appears is the offer of a new photo message; and no other     *)
(* step than a tap's decision makes a request of an offer                   *)
C38_OfferStep ==
  /\ \A key \in OfferedKeys' :
       LET before == OfferOf(pendingPhotos, pendingPhotoGroups, key)
           after == OfferOf(pendingPhotos', pendingPhotoGroups', key)
       IN after # before => after > msgSeq
  /\ (OfferExpires \/ \E h \in TapHandlers : PromptDeleted(h)) => rm' = rm

(* C38: a photo offer is turned into at most one tracked request, even if   *)
(* its Yes button is tapped several times or by several users               *)
(* concurrently; once a No tap has taken the offer away or the offer has    *)
(* expired, a Yes tap creates no request.                                   *)
C38_OfferAtMostOnce == [][C38_TapStep /\ C38_OfferStep]_vars

(* C38 witness: a Yes tap on an offer that another Yes tap has already      *)
(* turned into a request, now being processed, is answered with 'expired'   *)
C38_Witness ==
  /\ ret.op = "tap"
  /\ ret.decision = "yes"
  /\ ret.reply = "expired"
  /\ ret.key[1] = "photo"
  /\ \E id \in DOMAIN rm.requests : rm.requests[id].status = "processing"
  /\ msgSeq = 1

C37_LiveIsNotTerminal ==
  \A id \in DOMAIN rm.requests :
    /\ rm.requests[id].status \in {"pending", "processing"}
    /\ Indexed(rm, id)

(* C37 witness: requests have ended as completed, failed and expired while  *)
(* another one is being processed                                           *)
C37_Witness ==
  /\ rm.stats.completedRequests >= 1
  /\ rm.stats.failedRequests >= 1
  /\ rm.stats.expiredRequests >= 1
  /\ \E id \in DOMAIN rm.requests : rm.requests[id].status = "processing"

(* The three terminal counters together *)
TerminalCount(S) ==
  S.stats.completedRequests + S.stats.failedRequests + S.stats.expiredRequests

(* In a step the terminal counters never fall, and together they grow by at *)
(* most the number of requests that leave the map in that step; a request   *)
(* that has left the map does not come back                                 *)
C40_CountStep ==
  /\ rm'.stats.completedRequests >= rm.stats.completedRequests
  /\ rm'.stats.failedRequests >= rm.stats.failedRequests
  /\ rm'.stats.expiredRequests >= rm.stats.expiredRequests
  /\ TerminalCount(rm') - TerminalCount(rm)
       <= Cardinality(DOMAIN rm.requests \ DOMAIN rm'.requests)
  /\ \A id \in DOMAIN rm'.requests \ DOMAIN rm.requests : id > idSeq

(* C40: completedRequests + failedRequests + expiredRequests is at most     *)
(* totalRequests in every reachable state, and each created request         *)
(* contributes to at most one of the three terminal counters, for any       *)
(* interleaving of completion, failure, /clear, eviction and the sweep.     *)
C40_TerminalCountersBounded ==
  /\ [](TerminalCount(rm) + Cardinality(DOMAIN rm.requests)
          <= rm.stats.totalRequests)
  /\ [][C40_CountStep]_vars

(* C40 witness: of six requests one was evicted uncounted, and the others   *)
(* ended in each of the three counters or are still live                    *)
C40_Witness ==
  /\ rm.stats.totalRequests = 6
  /\ rm.stats.completedRequests >= 1
  /\ rm.stats.failedRequests >= 1
  /\ rm.stats.expiredRequests >= 1
  /\ TerminalCount(rm) + Cardinality(DOMAIN rm.requests) < 6

(* C35: for every media group id, every photo event carrying that id is     *)
(* appended to one and the same batch, and the collector releases a batch   *)
(* for that id at most once, however the arrivals of the photos are spaced  *)
(* in time relative to the collection timer started by the first photo.     *)
C35_OneBatchPerAlbum ==
  \A g \in MediaGroupIds :
    /\ WindowsClosed(g) <= 1
    /\ \A i, j \in 1..Len(arrivals) :
         (arrivals[i].mediaGroupId = g /\ arrivals[j].mediaGroupId = g)
           => arrivals[i].window = arrivals[j].window

(* C31: the identification cache holds an entry for (chat, species) only if *)
(* a pipeline run for that chat completed successfully with that species    *)
(* delivered; a run that failed after the classification step has left no   *)
(* entry behind once it is over.                                            *)
C31_CachedOnlyIfDelivered ==
  \A h \in SoloHandlers, n \in ScientificNames :
    (makeKey(HandlerChat, n) \in DOMAIN cache /\ pc[h] = Idle)
      => _getKeyAndLimit(HandlerChat, h).key \in DOMAIN delivered

(* The successes among the results of the run, as positions of results *)
Successes(run) ==
  {i \in 1..Len(run.results) : run.results[i].success}

RECURSIVE SumCounts(_)
SumCounts(speciesGroups) ==
  IF speciesGroups = << >>
    THEN 0
    ELSE Head(speciesGroups).count + SumCounts(Tail(speciesGroups))

(* The groups that hold the buffer of a result *)
GroupsHolding(run, i) ==
  {k \in 1..Len(run.speciesGroups) :
     \E b \in 1..Len(run.speciesGroups[k].buffers) :
       run.speciesGroups[k].buffers[b] = run.results[i].buffer}

(* C32: when batch successes are grouped by scientific name, the counts of  *)
(* the groups sum to the number of successfully identified photos, two      *)
(* photos fall in the same group exactly when their scientific names are    *)
(* equal, and the image kept for the high-resolution follow-up of a species *)
(* (d._originalImageBuffer of the group's result, and of the cache entry    *)
(* once it is written) is the first successfully identified photo of that   *)
(* species in batch order.                                                  *)
C32_GroupedBySpecies ==
  batchRun.at \in {"sending", "done"} =>
    LET run == batchRun
        first(n) ==
          CHOOSE i \in Successes(run) :
            /\ run.results[i].data.scientificName = n
            /\ \A j \in Successes(run) :
                 run.results[j].data.scientificName = n => i <= j
    IN /\ SumCounts(run.speciesGroups) = Cardinality(Successes(run))
       /\ \A i \in Successes(run) : Cardinality(GroupsHolding(run, i)) = 1
       /\ \A i, j \in Successes(run) :
            (GroupsHolding(run, i) = GroupsHolding(run, j))
              <=> (run.results[i].data.scientificName
                     = run.results[j].data.scientificName)
       /\ \A k \in 1..Len(run.speciesGroups) :
            LET group == run.speciesGroups[k]
                image == run.results[first(group.species)].buffer
            IN /\ group.count = Len(group.buffers)
               /\ resultOfGroup(group)._originalImageBuffer = image
               /\ k <= run.sent =>
                    cache[makeKey(HandlerChat, group.species)].value
                      ._originalImageBuffer = image

(* ... reached: an album with a species found on two photos and another    *)
(* species, all results sent                                                *)
C32_Witness ==
  /\ batchRun.at = "done"
  /\ Len(batchRun.speciesGroups) = 2
  /\ batchRun.sent = 2
  /\ \E k \in 1..2 : batchRun.speciesGroups[k].count = 2
  /\ \E k \in 1..2 : batchRun.speciesGroups[k].buffers[1] # 0

C34_ImageSentOnce ==
  \A i, j \in 1..Len(imagesSent) :
    (/\ i < j
     /\ imagesSent[i].userId = imagesSent[j].userId
     /\ imagesSent[i].scientificName = imagesSent[j].scientificName)
      => imagesSent[j].at - imagesSent[i].at > ttl

====
